---- MODULE Spec2Model ----
(***************************************************************************)
(* State-machine model of BerezaServer (src/server.js, first class,        *)
(* lines 8-1077): the in-memory maps of the server and one action per      *)
(* REST route / socket handler.  Each handler runs to completion (node's   *)
(* single-threaded event loop), so each is one atomic action.              *)
(*                                                                         *)
(* Abstractions: user names, avatars and password hashes are not stored;   *)
(* the bearer token is replaced by the user id it verifies to (the JWT     *)
(* middleware, lines 42-57, only copies decoded.userId to req.userId);     *)
(* Date.now() is the variable now, advanced by Tick.                       *)
(***************************************************************************)
EXTENDS Integers, Sequences, FiniteSets, TLC

VARIABLES users, friendships, friendRequests, chats, activeCalls,
          socketUsers, now, emitted, last,
          \* the registrations that passed the checks of POST /api/auth/register
          \* and wait for bcrypt.hash: the email of each, in order of arrival
          registering,
          \* the second BerezaServer class of the file (lines 1088-1450), the
          \* variant with reject_call: its maps users, chats and activeCalls
          \* and the sockets that connected to it
          variant

vars == <<users, friendships, friendRequests, chats, activeCalls,
          socketUsers, now, emitted, last, registering, variant>>

\* ---------------------------------------------------------------- bounds
\* Largest clock reading (Date.now()) the model explores.
MaxTime == 1
\* Largest number of friend requests ever stored (they are never deleted), in
\* the friend-workflow specification and in the whole-server specification.
MaxRequests == 2
MaxLiveRequests == 1
\* Largest number of chats ever stored (they are never deleted).
MaxChats == 2
\* Largest number of call records alive at once.
MaxCalls == 1
\* Longest participantIds array POSTed to /api/chats.
MaxPartIds == 1
\* Number of socket.io connections that exist.
NumSockets == 1
\* Number of socket.io connections in the message and call specifications,
\* where a sender and a receiver are connected at once.
NumPeers == 2
\* Largest number of messages sent over the sockets, and largest unreadCount.
MaxSent == 1
MaxUnread == 2
\* Longest participant list of a call record.
MaxCallParts == 3
\* Largest number of half-second waits in the call-lifecycle specification.
MaxWaits == 2
\* Largest number of registrations waiting for their password hash.
MaxInFlight == 2
\* Largest number of users created by registration.
MaxRegistered == 2

\* ------------------------------------------------------------ value sets
DemoUserIds == {"demo_user_1", "demo_user_2", "demo_user_3"}
\* An id no user record has (a friendId or participant id that resolves to nothing).
GhostId == "ghost_user"
\* An email no user record has.
GhostEmail == "nobody@example.com"
\* Stands for a request body without the field.
Missing == ""
SocketIds == 1..NumSockets
PeerSockets == 1..NumPeers
Times == 0..MaxTime
\* respondedAt of a request that has not been answered (the field is absent).
NoTime == -1
\* A request id that was never issued.
BogusRequestId == MaxTime + 1

\* ------------------------------------------------------------- helpers
Range(s) == {s[i] : i \in DOMAIN s}

\* Mutant of Dedup: repeated elements are kept.
DedupKeepAll(s) == s

\* [...new Set(arr)] and .filter((v,i,a) => a.indexOf(v) === i):
\* keep the first occurrence of every element, in order.
RECURSIVE Dedup(_)
Dedup(s) ==
    IF s = <<>> THEN <<>>
    ELSE LET front == Dedup(SubSeq(s, 1, Len(s) - 1))
             x == s[Len(s)]
         IN IF x \in Range(front) THEN front ELSE Append(front, x)

\* this.users.has(id)
UserIds == {users[i].id : i \in DOMAIN users}
HasUser(id) == id \in UserIds

\* usersArray.find(u => u.email === email): index of the first match, 0 if none.
FindUserByEmail(email) ==
    LET hits == {i \in DOMAIN users : users[i].email = email}
    IN IF hits = {} THEN 0 ELSE CHOOSE i \in hits : \A j \in hits : i <= j

\* this.users.get(id)?.email
EmailOf(id) ==
    LET hits == {i \in DOMAIN users : users[i].id = id}
    IN IF hits = {} THEN Missing ELSE users[CHOOSE i \in hits : TRUE].email

\* Mutant of getSocketByUserId: only the first entry of the registry is looked at.
getSocketByUserIdFirstEntry(userId) ==
    IF socketUsers # <<>> /\ socketUsers[1].uid = userId THEN socketUsers[1].sid ELSE 0

\* getSocketByUserId: the first socket, in Map insertion order, mapped to userId; 0 if none.
getSocketByUserId(userId) ==
    LET hits == {i \in DOMAIN socketUsers : socketUsers[i].uid = userId}
    IN IF hits = {} THEN 0
       ELSE socketUsers[CHOOSE i \in hits : \A j \in hits : i <= j].sid

\* isUserOnline
isUserOnline(userId) == \E i \in DOMAIN socketUsers : socketUsers[i].uid = userId

\* Mutant of IsFriend: the lookup keyed by the friend instead of the current user.
IsFriendWrongKey(a, b) == b \in DOMAIN friendships /\ b \in friendships[b]

\* this.friendships.get(a)?.has(b)
IsFriend(a, b) == a \in DOMAIN friendships /\ b \in friendships[a]

\* An outbound socket event: receiving socket, event name, and from its payload
\* the user id, the numeric object id (request, chat or call) and the status.
Event(to, ev, user, id, status) ==
    [to |-> to, ev |-> ev, user |-> user, id |-> id, status |-> status]

\* The outcome of the last operation: the route or socket event, and the HTTP
\* status and error of its response (0 and "" for a socket event, which has none).
Reply(op, status, error) == [op |-> op, status |-> status, error |-> error]

\* ------------------------------------------------------------ chat ids
\* 'demo_chat_' + userId, 'chat_' + Date.now(), `chat_${userId1}_${userId2}`
ChatId(kind, t, a, b) == [kind |-> kind, t |-> t, a |-> a, b |-> b]
DemoChatId(userId) == ChatId("demo_chat", NoTime, userId, "")
TimeChatId(t) == ChatId("chat", t, "", "")
PairChatId(a, b) == ChatId("chat", NoTime, a, b)
\* A chatId field that is absent from the payload, and one that names no chat.
NoChatId == ChatId("", NoTime, "", "")
BogusChatId == ChatId("chat", BogusRequestId, "", "")

MsgId(kind, n) == [kind |-> kind, n |-> n]

\* createDemoChat(userId) applied to a chat map.
createDemoChat(chs, userId, t) ==
    LET chatId == DemoChatId(userId)
        msgs == << [id |-> MsgId("demo_msg", 1), text |-> "demo", senderId |-> "demo_user_1",
                    timestamp |-> t - 2, chatId |-> chatId],
                   [id |-> MsgId("demo_msg", 2), text |-> "demo", senderId |-> "demo_user_2",
                    timestamp |-> t - 1, chatId |-> chatId],
                   [id |-> MsgId("demo_msg", 3), text |-> "demo", senderId |-> "demo_user_3",
                    timestamp |-> t, chatId |-> chatId] >>
        chat == [id |-> chatId, type |-> "group",
                 participants |-> Dedup(<<"demo_user_1", "demo_user_2", "demo_user_3", userId>>),
                 messages |-> msgs, unreadCount |-> 0,
                 createdAt |-> t, updatedAt |-> t, lastMessage |-> msgs[3]]
    IN IF chatId \in DOMAIN chs THEN chs
       ELSE [c \in DOMAIN chs \cup {chatId} |-> IF c = chatId THEN chat ELSE chs[c]]

\* Mutant of createChatBetweenUsers: the user-existence test is inverted.
createChatBetweenUsersInverted(chs, userId1, userId2, t) ==
    LET chatId == PairChatId(userId1, userId2)
        welcome == [id |-> MsgId("welcome_msg", 0), text |-> "welcome",
                    senderId |-> userId1, timestamp |-> t, chatId |-> chatId]
        newChat == [id |-> chatId, type |-> "private",
                    participants |-> <<userId1, userId2>>,
                    messages |-> <<welcome>>, unreadCount |-> 0,
                    createdAt |-> t, updatedAt |-> t, lastMessage |-> welcome]
    IN IF chatId \in DOMAIN chs \/ PairChatId(userId2, userId1) \in DOMAIN chs THEN chs
       ELSE IF HasUser(userId1) \/ HasUser(userId2) THEN chs
       ELSE [c \in DOMAIN chs \cup {chatId} |-> IF c = chatId THEN newChat ELSE chs[c]]

\* createChatBetweenUsers(userId1, userId2) applied to a chat map.
createChatBetweenUsers(chs, userId1, userId2, t) ==
    LET chatId == PairChatId(userId1, userId2)
        reverseChatId == PairChatId(userId2, userId1)
        welcome == [id |-> MsgId("welcome_msg", 0), text |-> "welcome", senderId |-> userId1,
                    timestamp |-> t, chatId |-> chatId]
        newChat == [id |-> chatId, type |-> "private",
                    participants |-> <<userId1, userId2>>,
                    messages |-> <<welcome>>, unreadCount |-> 0,
                    createdAt |-> t, updatedAt |-> t, lastMessage |-> welcome]
    IN IF chatId \in DOMAIN chs \/ reverseChatId \in DOMAIN chs THEN chs
       ELSE IF ~HasUser(userId1) \/ ~HasUser(userId2) THEN chs
       ELSE [c \in DOMAIN chs \cup {chatId} |-> IF c = chatId THEN newChat ELSE chs[c]]

\* ----------------------------------------------------------------- Init
\* createDemoData: three demo users, two demo friendships, one demo chat.
Init ==
    /\ users = << [id |-> "demo_user_1", email |-> "anna@example.com", status |-> "online"],
                  [id |-> "demo_user_2", email |-> "ivan@example.com", status |-> "offline"],
                  [id |-> "demo_user_3", email |-> "maria@example.com", status |-> "online"] >>
    /\ friendships = [u \in DemoUserIds |->
                        IF u = "demo_user_1" THEN {"demo_user_2", "demo_user_3"}
                        ELSE {"demo_user_1"}]
    /\ friendRequests = [u \in DemoUserIds |-> <<>>]
    /\ chats = createDemoChat(<<>>, "demo_user_1", 0)
    /\ activeCalls = <<>>
    /\ socketUsers = <<>>
    /\ now = 0
    /\ emitted = <<>>
    /\ last = Reply("init", 0, "")
    /\ registering = <<>>
    /\ variant = [users |-> <<>>, chats |-> <<>>, activeCalls |-> <<>>,
                  sockets |-> [s \in PeerSockets |-> [state |-> "new", userId |-> Missing]]]

\* ------------------------------------------------- friend-request routes
\* Number of friend requests stored, over all recipients.
RECURSIVE SumLen(_, _)
SumLen(f, S) ==
    IF S = {} THEN 0
    ELSE LET x == CHOOSE y \in S : TRUE IN Len(f[x]) + SumLen(f, S \ {x})
RequestCount == SumLen(friendRequests, DOMAIN friendRequests)

\* this.friendRequests.get(id) || []
RequestsOf(id) == IF id \in DOMAIN friendRequests THEN friendRequests[id] ELSE <<>>

\* Mutant of ExistingRequest: the current user's own inbox is searched.
ExistingRequestOwnInbox(currentUserId, friendId) ==
    \E i \in DOMAIN RequestsOf(currentUserId) :
        /\ RequestsOf(currentUserId)[i].fromUserId = friendId
        /\ RequestsOf(currentUserId)[i].status = "pending"

\* this.friendRequests.get(friend.id)?.find(req =>
\*     req.fromUserId === currentUserId && req.status === 'pending')
ExistingRequest(currentUserId, friendId) ==
    \E i \in DOMAIN RequestsOf(friendId) :
        /\ RequestsOf(friendId)[i].fromUserId = currentUserId
        /\ RequestsOf(friendId)[i].status = "pending"

\* Mutant of FindPendingIndex: the status test is dropped.
FindIndexAnyStatus(requests, requestId) ==
    LET hits == {i \in DOMAIN requests : requests[i].id = requestId}
    IN IF hits = {} THEN 0 ELSE CHOOSE i \in hits : \A j \in hits : i <= j

\* Mutant of FindPendingIndex: the id test is dropped.
FindPendingAnyId(requests, requestId) ==
    LET hits == {i \in DOMAIN requests : requests[i].status = "pending"}
    IN IF hits = {} THEN 0 ELSE CHOOSE i \in hits : \A j \in hits : i <= j

\* requests.findIndex(req => req.id === requestId && req.status === 'pending'); 0 for -1.
FindPendingIndex(requests, requestId) ==
    LET hits == {i \in DOMAIN requests :
                    requests[i].id = requestId /\ requests[i].status = "pending"}
    IN IF hits = {} THEN 0 ELSE CHOOSE i \in hits : \A j \in hits : i <= j

\* Mutant of AddFriendship: only the accepting user's Set gains the edge.
AddFriendshipOneWay(fs, userId, fromUserId) ==
    [u \in DOMAIN fs \cup {userId, fromUserId} |->
        LET old == IF u \in DOMAIN fs THEN fs[u] ELSE {}
        IN  IF u = userId THEN old \cup {fromUserId} ELSE old]

\* friendships.get(userId).add(fromUserId); friendships.get(fromUserId).add(userId),
\* each Set created first when the key is absent.
AddFriendship(fs, userId, fromUserId) ==
    [u \in DOMAIN fs \cup {userId, fromUserId} |->
        LET old == IF u \in DOMAIN fs THEN fs[u] ELSE {}
        IN  IF u = userId /\ u = fromUserId THEN old \cup {userId}
            ELSE IF u = userId THEN old \cup {fromUserId}
            ELSE IF u = fromUserId THEN old \cup {userId}
            ELSE old]

\* Mutant of DeleteFriendship: only the current user's Set loses the edge.
DeleteFriendshipOneWay(fs, userId, friendId) ==
    [u \in DOMAIN fs |-> IF u = userId THEN fs[u] \ {friendId} ELSE fs[u]]

\* Mutant of DeleteFriendship: the current user's Set is cleared.
DeleteFriendshipClear(fs, userId, friendId) ==
    [u \in DOMAIN fs |->
        IF u = userId THEN {}
        ELSE IF u = friendId THEN fs[u] \ {userId} ELSE fs[u]]

\* friendships.get(userId).delete(friendId); friendships.get(friendId).delete(userId),
\* each only when the key is present.
DeleteFriendship(fs, userId, friendId) ==
    [u \in DOMAIN fs |->
        LET afterFirst == IF u = userId THEN fs[u] \ {friendId} ELSE fs[u]
        IN  IF u = friendId THEN afterFirst \ {userId} ELSE afterFirst]

\* POST /api/friends/request  (lines 272-349)
SendRequest(currentUserId, friendEmail) ==
    /\ UNCHANGED <<registering, variant>>
    /\ LET fi == FindUserByEmail(friendEmail)
           friendId == users[fi].id
           request == [id |-> now, fromUserId |-> currentUserId, toUserId |-> friendId,
                       status |-> "pending", createdAt |-> now, respondedAt |-> NoTime]
           friendSocket == getSocketByUserId(friendId)
           fail(status, error) ==
               /\ last' = Reply("sendRequest", status, error)
               /\ emitted' = <<>>
               /\ UNCHANGED <<users, friendships, friendRequests, chats, activeCalls,
                              socketUsers, now>>
       IN  IF friendEmail = Missing THEN fail(400, "EmailRequired")
           ELSE IF friendEmail = EmailOf(currentUserId) THEN fail(400, "SelfRequest")
           ELSE IF fi = 0 THEN fail(404, "UserNotFound")
           ELSE IF IsFriend(currentUserId, friendId) THEN fail(400, "AlreadyFriends")
           ELSE IF ExistingRequest(currentUserId, friendId)
                THEN fail(400, "DuplicatePending")
           ELSE /\ friendRequests' =
                       [u \in DOMAIN friendRequests \cup {friendId} |->
                           IF u = friendId THEN Append(RequestsOf(friendId), request)
                           ELSE friendRequests[u]]
                /\ emitted' = IF friendSocket # 0
                              THEN <<Event(friendSocket, "friend_request", currentUserId, now, "")>>
                              ELSE <<>>
                /\ last' = Reply("sendRequest", 200, "")
                /\ UNCHANGED <<users, friendships, chats, activeCalls, socketUsers, now>>

\* POST /api/friends/requests/:requestId/accept  (lines 384-436)
AcceptRequest(userId, requestId) ==
    /\ UNCHANGED <<registering, variant>>
    /\ LET requests == RequestsOf(userId)
           requestIndex == FindPendingIndex(requests, requestId)
           request == requests[requestIndex]
           fromUserSocket == getSocketByUserId(request.fromUserId)
       IN  IF requestIndex = 0
           THEN /\ last' = Reply("acceptRequest", 404, "NotFound")
                /\ emitted' = <<>>
                /\ UNCHANGED <<users, friendships, friendRequests, chats, activeCalls,
                               socketUsers, now>>
           ELSE /\ friendRequests' =
                       [friendRequests EXCEPT ![userId][requestIndex] =
                           [@ EXCEPT !.status = "accepted", !.respondedAt = now]]
                /\ friendships' = AddFriendship(friendships, userId, request.fromUserId)
                /\ emitted' = IF fromUserSocket # 0
                              THEN <<Event(fromUserSocket, "friend_request_accepted", userId, requestId, "")>>
                              ELSE <<>>
                /\ chats' = createChatBetweenUsers(chats, userId, request.fromUserId, now)
                /\ last' = Reply("acceptRequest", 200, "")
                /\ UNCHANGED <<users, activeCalls, socketUsers, now>>

\* POST /api/friends/requests/:requestId/reject  (lines 439-464)
RejectRequest(userId, requestId) ==
    /\ UNCHANGED <<registering, variant>>
    /\ LET requests == RequestsOf(userId)
           requestIndex == FindPendingIndex(requests, requestId)
       IN  IF requestIndex = 0
           THEN /\ last' = Reply("rejectRequest", 404, "NotFound")
                /\ emitted' = <<>>
                /\ UNCHANGED <<users, friendships, friendRequests, chats, activeCalls,
                               socketUsers, now>>
           ELSE /\ friendRequests' =
                       [friendRequests EXCEPT ![userId][requestIndex] =
                           [@ EXCEPT !.status = "rejected", !.respondedAt = now]]
                /\ emitted' = <<>>
                /\ last' = Reply("rejectRequest", 200, "")
                /\ UNCHANGED <<users, friendships, chats, activeCalls, socketUsers, now>>

\* DELETE /api/friends/:friendId  (lines 467-493)
RemoveFriend(userId, friendId) ==
    /\ UNCHANGED <<registering, variant>>
    /\ /\ friendships' = DeleteFriendship(friendships, userId, friendId)
       /\ emitted' = <<>>
       /\ last' = Reply("removeFriend", 200, "")
       /\ UNCHANGED <<users, friendRequests, chats, activeCalls, socketUsers, now>>

\* ------------------------------------------------------------ chat route
\* Array.from(this.chats.values()).find(chat =>
\*     chat.participants.length === allParticipants.length &&
\*     chat.participants.every(pId => allParticipants.includes(pId)))
ExistingChat(chs, allParticipants) ==
    \E c \in DOMAIN chs :
        /\ Len(chs[c].participants) = Len(allParticipants)
        /\ \A i \in DOMAIN chs[c].participants :
               chs[c].participants[i] \in Range(allParticipants)

\* Mutant of EmitToUsers: the event goes to every socket that is mapped to a user.
EmitToUsersBroadcast(userIds, ev, user, id, status) ==
    [i \in DOMAIN socketUsers |-> Event(socketUsers[i].sid, ev, user, id, status)]

\* The sockets a fan-out over userIds reaches, one event per user that
\* getSocketByUserId resolves, in the order of userIds.
RECURSIVE EmitToUsers(_, _, _, _, _)
EmitToUsers(userIds, ev, user, id, status) ==
    IF userIds = <<>> THEN <<>>
    ELSE LET s == getSocketByUserId(Head(userIds))
             rest == EmitToUsers(Tail(userIds), ev, user, id, status)
         IN IF s # 0 THEN <<Event(s, ev, user, id, status)>> \o rest ELSE rest

\* POST /api/chats  (lines 527-587)
CreateChat(userId, isArray, participantIds) ==
    /\ UNCHANGED <<registering, variant>>
    /\ LET allParticipants == Dedup(<<userId>> \o participantIds)
           chatId == TimeChatId(now)
           newChat == [id |-> chatId,
                       type |-> IF Len(allParticipants) > 2 THEN "group" ELSE "private",
                       participants |-> allParticipants,
                       messages |-> <<>>, unreadCount |-> 0,
                       createdAt |-> now, updatedAt |-> now, lastMessage |-> <<>>]
           fail(status, error) ==
               /\ last' = Reply("createChat", status, error)
               /\ emitted' = <<>>
               /\ UNCHANGED <<users, friendships, friendRequests, chats, activeCalls,
                              socketUsers, now>>
       IN  IF ~isArray THEN fail(400, "ParticipantsRequired")
           ELSE IF \E i \in DOMAIN allParticipants : ~HasUser(allParticipants[i])
                THEN fail(404, "UserNotFound")
           ELSE IF ExistingChat(chats, allParticipants) THEN fail(400, "ChatAlreadyExists")
           ELSE /\ chats' = [c \in DOMAIN chats \cup {chatId} |->
                                IF c = chatId THEN newChat ELSE chats[c]]
                /\ emitted' = EmitToUsers(allParticipants, "chat_created", userId, now, "")
                /\ last' = Reply("createChat", 201, "")
                /\ UNCHANGED <<users, friendships, friendRequests, activeCalls,
                               socketUsers, now>>

\* ------------------------------------------------------- socket sessions
\* A set as a sequence, in a fixed order: the iteration of a JS Set, whose
\* insertion order the model does not keep.
RECURSIVE SetToSeq(_)
SetToSeq(S) ==
    IF S = {} THEN <<>>
    ELSE LET x == CHOOSE y \in S : TRUE IN <<x>> \o SetToSeq(S \ {x})

\* Mutant of notifyFriendsStatusChange: every other user is notified.
notifyEveryoneStatusChange(userId, status) ==
    IF ~HasUser(userId) THEN <<>>
    ELSE EmitToUsers(SetToSeq(UserIds \ {userId}),
                     "friend_status_changed", userId, NoTime, status)

\* notifyFriendsStatusChange(userId, status): the events it emits.
notifyFriendsStatusChange(userId, status) ==
    IF ~HasUser(userId) THEN <<>>
    ELSE EmitToUsers(SetToSeq(IF userId \in DOMAIN friendships
                              THEN friendships[userId] ELSE {}),
                     "friend_status_changed", userId, NoTime, status)

\* user.status = status for the user with this id.
SetStatus(us, userId, status) ==
    [i \in DOMAIN us |-> IF us[i].id = userId THEN [us[i] EXCEPT !.status = status]
                         ELSE us[i]]

\* this.socketUsers.set(socketId, userId): a Map keeps the position of a key
\* it already holds and appends a new one.
SocketUsersSet(su, socketId, userId) ==
    IF \E i \in DOMAIN su : su[i].sid = socketId
    THEN [i \in DOMAIN su |-> IF su[i].sid = socketId
                              THEN [sid |-> socketId, uid |-> userId] ELSE su[i]]
    ELSE Append(su, [sid |-> socketId, uid |-> userId])

\* this.socketUsers.delete(socketId)
RECURSIVE SocketUsersDelete(_, _)
SocketUsersDelete(su, socketId) ==
    IF su = <<>> THEN <<>>
    ELSE IF Head(su).sid = socketId THEN SocketUsersDelete(Tail(su), socketId)
    ELSE <<Head(su)>> \o SocketUsersDelete(Tail(su), socketId)

\* this.socketUsers.get(socketId), Missing when absent.
SocketUser(socketId) ==
    LET hits == {i \in DOMAIN socketUsers : socketUsers[i].sid = socketId}
    IN IF hits = {} THEN Missing ELSE socketUsers[CHOOSE i \in hits : TRUE].uid

\* socket.on('authenticate')  (lines 631-658); validToken is the outcome of
\* jwt.verify, userId the id the token decodes to.
Authenticate(socketId, validToken, userId) ==
    /\ UNCHANGED <<registering, variant>>
    /\ IF ~validToken
       THEN /\ emitted' = <<Event(socketId, "auth_error", "", NoTime, "")>>
            /\ last' = Reply("authenticate", 0, "")
            /\ UNCHANGED <<users, friendships, friendRequests, chats, activeCalls,
                           socketUsers, now>>
       ELSE IF ~HasUser(userId)
       THEN /\ emitted' = <<>>
            /\ last' = Reply("authenticate", 0, "")
            /\ UNCHANGED <<users, friendships, friendRequests, chats, activeCalls,
                           socketUsers, now>>
       ELSE /\ socketUsers' = SocketUsersSet(socketUsers, socketId, userId)
            /\ users' = SetStatus(users, userId, "online")
            /\ UNCHANGED <<friendships, friendRequests, chats, activeCalls, now>>
            \* notifyFriendsStatusChange runs after socketUsers.set
            /\ emitted' = (notifyFriendsStatusChange(userId, "online"))'
                              \o << Event(socketId, "authenticated", userId, NoTime, ""),
                                    Event(socketId, "friends_list", userId, NoTime, ""),
                                    Event(socketId, "friend_requests", userId, NoTime, ""),
                                    Event(socketId, "chats_list", userId, NoTime, "") >>
            /\ last' = Reply("authenticate", 0, "")

\* socket.on('disconnect')  (lines 805-822)
Disconnect(socketId) ==
    /\ UNCHANGED <<registering, variant>>
    /\ \E userId \in {SocketUser(socketId)} :
           IF userId = Missing
           THEN /\ emitted' = <<>>
                /\ last' = Reply("disconnect", 0, "")
                /\ UNCHANGED <<users, friendships, friendRequests, chats, activeCalls,
                               socketUsers, now>>
           ELSE /\ socketUsers' = SocketUsersDelete(socketUsers, socketId)
                /\ users' = IF HasUser(userId) THEN SetStatus(users, userId, "offline")
                            ELSE users
                /\ UNCHANGED <<friendships, friendRequests, chats, activeCalls, now>>
                \* notifyFriendsStatusChange runs after socketUsers.delete
                /\ emitted' = IF HasUser(userId)
                              THEN (notifyFriendsStatusChange(userId, "offline"))'
                              ELSE <<>>
                /\ last' = Reply("disconnect", 0, "")

\* The clock: Date.now() does not go back.
Tick ==
    /\ UNCHANGED <<registering, variant>>
    /\ /\ now < MaxTime
       /\ now' = now + 1
       /\ UNCHANGED <<users, friendships, friendRequests, chats, activeCalls,
                      socketUsers, emitted, last>>

\* ---------------------------------------------------------- call signaling
\* socket.on('start_call')  (lines 710-757); socket.userId is the user the
\* socket authenticated as.
StartCall(socketId, chatId, type) ==
    /\ UNCHANGED <<registering, variant>>
    /\ LET userId == SocketUser(socketId)
           callId == now
           callData == [id |-> callId, chatId |-> chatId, callerId |-> userId,
                        type |-> IF type = Missing THEN "voice" ELSE type,
                        participants |-> <<userId>>, status |-> "calling",
                        startTime |-> now]
           others == SelectSeq(chats[chatId].participants, LAMBDA p : p # userId)
       IN  IF \/ userId = Missing \/ chatId = NoChatId
              \/ chatId \notin DOMAIN chats
              \/ userId \notin Range(chats[chatId].participants)
              \/ ~HasUser(userId)
           THEN /\ emitted' = <<>>
                /\ last' = Reply("start_call", 0, "")
                /\ UNCHANGED <<users, friendships, friendRequests, chats, activeCalls,
                               socketUsers, now>>
           ELSE /\ activeCalls' = [c \in DOMAIN activeCalls \cup {callId} |->
                                      IF c = callId THEN callData ELSE activeCalls[c]]
                /\ emitted' = EmitToUsers(others, "incoming_call", userId, callId, "")
                                 \o <<Event(socketId, "call_started", userId, callId, "calling")>>
                /\ last' = Reply("start_call", 0, "")
                /\ UNCHANGED <<users, friendships, friendRequests, chats, socketUsers, now>>

\* ------------------------------------------------------------- messages
\* chat.messages.length > 1000 and chat.messages.slice(-100)
HistoryLimit == 1000
HistoryKeep == 100

\* arr.slice(-n): the last n elements, the whole array when it is shorter.
SliceLast(s, n) == IF Len(s) <= n THEN s ELSE SubSeq(s, Len(s) - n + 1, Len(s))

\* Mutant of TrimHistory: the list is cut as soon as it is longer than what
\* a cut keeps.
TrimHistoryEager(msgs) ==
    IF Len(msgs) > HistoryKeep THEN SliceLast(msgs, HistoryKeep) ELSE msgs

\* if (chat.messages.length > 1000) chat.messages = chat.messages.slice(-100)
TrimHistory(msgs) ==
    IF Len(msgs) > HistoryLimit THEN SliceLast(msgs, HistoryKeep) ELSE msgs

\* Mutant of PushMessage: the message is put in front.
PushMessageFront(msgs, message) == <<message>> \o msgs

\* chat.messages.push(message)
PushMessage(msgs, message) == Append(msgs, message)

\* The new_message event: its payload is {chatId, message}.
NewMessageEvent(to, chatId, message) ==
    [to |-> to, ev |-> "new_message", user |-> message.senderId, id |-> NoTime,
     status |-> "", chatId |-> chatId, message |-> message]

\* Mutant of OfflineOthers: one increment however many participants are offline.
OfflineOthersOnce(participants, userId) ==
    IF \E i \in DOMAIN participants :
           getSocketByUserId(participants[i]) = 0 /\ participants[i] # userId
    THEN 1 ELSE 0

\* The number of passes of the delivery loop that take the else branch and
\* find participantId !== userId.
OfflineOthers(participants, userId) ==
    Len(SelectSeq(participants, LAMBDA p : getSocketByUserId(p) = 0 /\ p # userId))

\* Mutant of Receivers: the loop stops after the first delivery.
ReceiversFirstOnly(participants, userId) ==
    LET r == SelectSeq(participants, LAMBDA p : getSocketByUserId(p) # 0)
    IN IF r = <<>> THEN <<>> ELSE <<r[1]>>

\* The participants the delivery loop finds a socket for, in loop order.
Receivers(participants, userId) ==
    SelectSeq(participants, LAMBDA p : getSocketByUserId(p) # 0)

\* Mutant of IsParticipant: everybody passes.
IsParticipantAlways(chat, userId) == TRUE

\* chat.participants.includes(userId)
IsParticipant(chat, userId) == userId \in Range(chat.participants)

\* socket.on('send_message')  (lines 661-707).  The id of a message is
\* 'msg_' + Date.now() + a random suffix; no handler reads it, and the suffix
\* is left out.
SendMessage(socketId, chatId, text) ==
    /\ UNCHANGED <<registering, variant>>
    /\ LET userId == SocketUser(socketId)
           chat == chats[chatId]
           message == [id |-> MsgId("msg", now), text |-> text, senderId |-> userId,
                       timestamp |-> now, chatId |-> chatId]
           receivers == Receivers(chat.participants, userId)
       IN  IF \/ userId = Missing \/ chatId = NoChatId \/ text = Missing
              \/ chatId \notin DOMAIN chats
              \/ ~IsParticipant(chat, userId)
              \/ ~HasUser(userId)
           THEN /\ emitted' = <<>>
                /\ last' = Reply("send_message", 0, "")
                /\ UNCHANGED <<users, friendships, friendRequests, chats, activeCalls,
                               socketUsers, now>>
           ELSE /\ chats' = [chats EXCEPT ![chatId] =
                               [@ EXCEPT !.messages = TrimHistory(PushMessage(@, message)),
                                         !.updatedAt = now,
                                         !.lastMessage = message,
                                         !.unreadCount =
                                             @ + OfflineOthers(chat.participants, userId)]]
                /\ emitted' = [i \in DOMAIN receivers |->
                                 NewMessageEvent(getSocketByUserId(receivers[i]),
                                                 chatId, message)]
                /\ last' = Reply("send_message", 0, "")
                /\ UNCHANGED <<users, friendships, friendRequests, activeCalls,
                               socketUsers, now>>

\* GET /api/chats/:chatId/messages  (lines 589-612)
GetMessages(userId, chatId) ==
    /\ UNCHANGED <<registering, variant>>
    /\ IF chatId \notin DOMAIN chats
       THEN /\ last' = Reply("getMessages", 404, "ChatNotFound")
            /\ emitted' = <<>>
            /\ UNCHANGED <<users, friendships, friendRequests, chats, activeCalls,
                           socketUsers, now>>
       ELSE IF ~IsParticipant(chats[chatId], userId)
       THEN /\ last' = Reply("getMessages", 403, "NoAccess")
            /\ emitted' = <<>>
            /\ UNCHANGED <<users, friendships, friendRequests, chats, activeCalls,
                           socketUsers, now>>
       ELSE /\ chats' = [chats EXCEPT ![chatId].unreadCount = 0]
            /\ last' = Reply("getMessages", 200, "")
            /\ emitted' = <<>>
            /\ UNCHANGED <<users, friendships, friendRequests, activeCalls,
                           socketUsers, now>>

\* ------------------------------------------------------------ accept_call
\* The receiver of this.io.emit: every connected socket.
AllSockets == 0
\* A callId field that is absent from the payload.
NoCallId == NoTime

\* Mutant of JoinCall: the participant list is reset to caller and callee.
JoinCallPair(callData, userId) ==
    [callData EXCEPT !.participants = <<callData.callerId, userId>>,
                     !.status = "active"]

\* callData.participants.push(userId); callData.status = 'active'
JoinCall(callData, userId) ==
    [callData EXCEPT !.participants = Append(@, userId), !.status = "active"]

\* The call_accepted event: its payload is {callId, userId, callData}.
CallAcceptedEvent(to, callId, userId, callData) ==
    [to |-> to, ev |-> "call_accepted", user |-> userId, id |-> callId,
     status |-> callData.status, callData |-> callData]

\* Mutant of CallAccepted: the event goes to the sockets of the call's
\* participants.
CallAcceptedToParticipants(callId, userId, callData) ==
    LET RECURSIVE Out(_)
        Out(ps) ==
            IF ps = <<>> THEN <<>>
            ELSE (IF getSocketByUserId(Head(ps)) # 0
                  THEN <<CallAcceptedEvent(getSocketByUserId(Head(ps)), callId, userId,
                                           callData)>>
                  ELSE <<>>) \o Out(Tail(ps))
    IN  Out(callData.participants)

\* this.io.emit('call_accepted', {callId, userId, callData}): one event to
\* every connected socket.
CallAccepted(callId, userId, callData) ==
    <<CallAcceptedEvent(AllSockets, callId, userId, callData)>>

\* socket.on('accept_call')  (lines 760-778)
AcceptCall(socketId, callId) ==
    /\ UNCHANGED <<registering, variant>>
    /\ LET userId == SocketUser(socketId)
       IN  IF userId = Missing \/ callId = NoCallId \/ callId \notin DOMAIN activeCalls
           THEN /\ emitted' = <<>>
                /\ last' = Reply("accept_call", 0, "")
                /\ UNCHANGED <<users, friendships, friendRequests, chats, activeCalls,
                               socketUsers, now>>
           ELSE /\ activeCalls' = [activeCalls EXCEPT ![callId] = JoinCall(@, userId)]
                /\ emitted' = CallAccepted(callId, userId, JoinCall(activeCalls[callId], userId))
                /\ last' = Reply("accept_call", 0, "")
                /\ UNCHANGED <<users, friendships, friendRequests, chats, socketUsers, now>>

\* --------------------------------------------------------------- end_call
\* Mutant of CallDuration: the difference is left in milliseconds.
CallDurationMillis(startTime, t) == t - startTime

\* Math.floor((new Date() - new Date(callData.startTime)) / 1000)
CallDuration(startTime, t) == (t - startTime) \div 1000

\* The call_ended event: its payload is {callId, duration}.
CallEndedEvent(to, callId, duration) ==
    [to |-> to, ev |-> "call_ended", user |-> "", id |-> callId, status |-> "",
     duration |-> duration]

\* this.activeCalls.delete(callId)
DeleteCall(calls, callId) == [c \in DOMAIN calls \ {callId} |-> calls[c]]

\* socket.on('end_call')  (lines 781-802); socket.userId is read and not used.
EndCall(socketId, callId) ==
    /\ UNCHANGED <<registering, variant>>
    /\ IF callId = NoCallId \/ callId \notin DOMAIN activeCalls
       THEN /\ emitted' = <<>>
            /\ last' = Reply("end_call", 0, "")
            /\ UNCHANGED <<users, friendships, friendRequests, chats, activeCalls,
                           socketUsers, now>>
       ELSE LET callData == activeCalls[callId]
                reached == SelectSeq(callData.participants,
                                     LAMBDA p : getSocketByUserId(p) # 0)
            IN  /\ emitted' = [i \in DOMAIN reached |->
                                 CallEndedEvent(getSocketByUserId(reached[i]), callId,
                                                CallDuration(callData.startTime, now))]
                /\ activeCalls' = DeleteCall(activeCalls, callId)
                /\ last' = Reply("end_call", 0, "")
                /\ UNCHANGED <<users, friendships, friendRequests, chats, socketUsers, now>>

\* A send_message, start_call, accept_call or end_call event that carries no
\* payload: the handler's first statement, const { ... } = data (lines 662,
\* 711, 761, 782), throws a TypeError on undefined, and no handler has a
\* try/catch, so the error leaves the handler.  Nothing was written before it.
EventWithoutPayload(socketId, ev) ==
    /\ UNCHANGED <<registering, variant>>
    /\ /\ last' = Reply(ev, 0, "TypeError")
       /\ emitted' = <<>>
       /\ UNCHANGED <<users, friendships, friendRequests, chats, activeCalls,
                      socketUsers, now>>

\* ------------------------------------------------------------------ login
\* POST /api/auth/login  (lines 138-185); validPassword is the outcome of
\* bcrypt.compare, passwordGiven whether the body has a password.
Login(email, passwordGiven, validPassword) ==
    /\ UNCHANGED <<registering, variant>>
    /\ LET ui == FindUserByEmail(email)
           fail(status, error) ==
               /\ last' = Reply("login", status, error)
               /\ emitted' = <<>>
               /\ UNCHANGED <<users, friendships, friendRequests, chats, activeCalls,
                              socketUsers, now>>
       IN  IF email = Missing \/ ~passwordGiven THEN fail(400, "CredentialsRequired")
           ELSE IF ui = 0 THEN fail(401, "BadCredentials")
           ELSE IF ~validPassword THEN fail(401, "BadCredentials")
           ELSE /\ users' = [users EXCEPT ![ui].status = "online"]
                /\ last' = Reply("login", 200, "")
                /\ emitted' = <<>>
                /\ UNCHANGED <<friendships, friendRequests, chats, activeCalls,
                               socketUsers, now>>

\* Time passing between two events: Date.now() grows by ms.
Wait(ms) ==
    /\ UNCHANGED <<registering, variant>>
    /\ /\ now' = now + ms
       /\ UNCHANGED <<users, friendships, friendRequests, chats, activeCalls,
                      socketUsers, emitted, last>>

\* --------------------------------------------------------------- register
\* An email no user has at the start and a client registers with.
NewEmail == "new@example.com"
\* A string the email pattern of line 80 rejects.
BadEmail == "not-an-email"
\* emailRegex.test(email), over the emails of the model.
EmailFormatOk(email) == email # BadEmail /\ email # Missing
\* password.length < 6
MinPasswordLength == 6

\* 'user_' + Date.now() + Math.random().toString(36).substr(2, 9): an id no
\* user has; the n-th registered user gets the n-th id.
RegisteredIds == <<"user_1", "user_2", "user_3", "user_4">>
NewUserId == RegisteredIds[Len(users) - Cardinality(DemoUserIds) + 1]

\* POST /api/auth/register up to the await of bcrypt.hash (lines 67-92):
\* the checks, and then the request is parked until the hash resolves.
RegisterCheck(nameGiven, email, passwordLength) ==
    LET fail(status, error) ==
            /\ last' = Reply("register", status, error)
            /\ emitted' = <<>>
            /\ UNCHANGED <<users, friendships, friendRequests, chats, activeCalls,
                           socketUsers, now, registering, variant>>
    IN  IF ~nameGiven \/ email = Missing \/ passwordLength = 0
        THEN fail(400, "FieldsRequired")
        ELSE IF passwordLength < MinPasswordLength THEN fail(400, "PasswordTooShort")
        ELSE IF ~EmailFormatOk(email) THEN fail(400, "BadEmailFormat")
        ELSE IF FindUserByEmail(email) # 0 THEN fail(400, "EmailTaken")
        ELSE /\ registering' = Append(registering, email)
             /\ last' = Reply("registerHash", 0, "")
             /\ emitted' = <<>>
             /\ UNCHANGED <<users, friendships, friendRequests, chats, activeCalls,
                            socketUsers, now, variant>>

\* POST /api/auth/register after the await (lines 94-128), for the k-th
\* parked request: the user is created and stored, with its friend set, its
\* request array and its demo chat.
RegisterCreate(k) ==
    /\ k \in DOMAIN registering
    /\ registering' = [i \in 1..(Len(registering) - 1) |->
                          IF i < k THEN registering[i] ELSE registering[i + 1]]
    /\ users' = Append(users, [id |-> NewUserId, email |-> registering[k],
                               status |-> "offline"])
    /\ friendships' = [u \in DOMAIN friendships \cup {NewUserId} |->
                          IF u = NewUserId THEN {} ELSE friendships[u]]
    /\ friendRequests' = [u \in DOMAIN friendRequests \cup {NewUserId} |->
                             IF u = NewUserId THEN <<>> ELSE friendRequests[u]]
    /\ chats' = createDemoChat(chats, NewUserId, now)
    /\ emitted' = <<>>
    /\ last' = Reply("register", 201, "")
    /\ UNCHANGED <<activeCalls, socketUsers, now, variant>>

\* ------------------------------------------- the variant with reject_call
\* The ids the clients of the variant give themselves (userData.id).
VariantUserIds == {"client_a", "client_b"}
\* The ids the clients give their chats (chatData.id).
VariantChatIds == {"room_1"}
\* A chatId no chat was created with.
VariantBogusChatId == "no_room"

\* The first BerezaServer class is left as it is.
FirstClassUnchanged ==
    UNCHANGED <<users, friendships, friendRequests, chats, activeCalls, socketUsers,
                now, registering>>

\* Mutant of VariantGetSocketByUserId: the socket id of the user record is
\* returned without asking whether that socket is still connected.
VariantGetSocketStale(v, userId) ==
    IF userId \notin DOMAIN v.users THEN 0 ELSE v.users[userId].socketId

\* getSocketByUserId of the variant (lines 1438-1443): the connected socket
\* whose id the user record holds; 0 for null or undefined.
VariantGetSocketByUserId(v, userId) ==
    IF userId \notin DOMAIN v.users THEN 0
    ELSE IF v.sockets[v.users[userId].socketId].state = "open"
         THEN v.users[userId].socketId
         ELSE 0

\* participants.forEach(userId => { const userSocket = getSocketByUserId(userId);
\* if (userSocket && userId !== skip) userSocket.emit(ev, ...) })
RECURSIVE VariantEmitToUsers(_, _, _, _, _)
VariantEmitToUsers(v, userIds, ev, chatId, skip) ==
    IF userIds = <<>> THEN <<>>
    ELSE (IF VariantGetSocketByUserId(v, Head(userIds)) # 0 /\ Head(userIds) # skip
          THEN <<Event(VariantGetSocketByUserId(v, Head(userIds)), ev, Head(userIds),
                       chatId, "")>>
          ELSE <<>>) \o VariantEmitToUsers(v, Tail(userIds), ev, chatId, skip)
\* No participant is skipped.
SkipNobody == "nobody"

\* io.on('connection') of the variant (line 1225): a new socket.
VariantConnect(socketId) ==
    /\ variant.sockets[socketId].state = "new"
    /\ variant' = [variant EXCEPT !.sockets[socketId].state = "open"]
    /\ emitted' = <<>>
    /\ last' = Reply("connection", 0, "")
    /\ FirstClassUnchanged

\* socket.on('user_connected')  (lines 1229-1244)
VariantUserConnected(socketId, userId) ==
    /\ variant.sockets[socketId].state = "open"
    /\ LET v == [variant EXCEPT
                    !.users = [u \in DOMAIN variant.users \cup {userId} |->
                                  IF u = userId THEN [id |-> userId, socketId |-> socketId]
                                  ELSE variant.users[u]],
                    !.sockets[socketId].userId = userId]
       IN  /\ variant' = v
           \* sendChatsToUser(user.id)
           /\ emitted' = IF VariantGetSocketByUserId(v, userId) # 0
                         THEN <<Event(VariantGetSocketByUserId(v, userId), "chats_list",
                                      userId, "", "")>>
                         ELSE <<>>
    /\ last' = Reply("user_connected", 0, "")
    /\ FirstClassUnchanged

\* socket.on('create_chat')  (lines 1252-1271), chatData.id and
\* chatData.participants given.
VariantCreateChat(socketId, chatId, participants) ==
    /\ variant.sockets[socketId].state = "open"
    /\ variant' = [variant EXCEPT
                      !.chats = [c \in DOMAIN variant.chats \cup {chatId} |->
                                    IF c = chatId
                                    THEN [id |-> chatId, participants |-> participants]
                                    ELSE variant.chats[c]]]
    /\ emitted' = VariantEmitToUsers(variant, participants, "chat_created", chatId,
                                     SkipNobody)
    /\ last' = Reply("create_chat", 0, "")
    /\ FirstClassUnchanged

\* socket.on('start_call') of the variant  (lines 1305-1337)
VariantStartCall(socketId, chatId, caller) ==
    /\ variant.sockets[socketId].state = "open"
    /\ last' = Reply("start_call", 0, "")
    /\ FirstClassUnchanged
    /\ IF chatId \notin DOMAIN variant.chats
       THEN emitted' = <<>> /\ variant' = variant
       ELSE LET callData == [chatId |-> chatId, caller |-> caller, type |-> "voice",
                             status |-> "calling",
                             participants |-> variant.chats[chatId].participants,
                             startTime |-> now]
            IN  /\ variant' = [variant EXCEPT
                                  !.activeCalls =
                                      [c \in DOMAIN variant.activeCalls \cup {chatId} |->
                                          IF c = chatId THEN callData
                                          ELSE variant.activeCalls[c]]]
                /\ emitted' = VariantEmitToUsers(variant, callData.participants,
                                                 "incoming_call", chatId,
                                                 variant.sockets[socketId].userId)

\* socket.on('accept_call') of the variant  (lines 1340-1361)
VariantAcceptCall(socketId, chatId) ==
    /\ variant.sockets[socketId].state = "open"
    /\ last' = Reply("accept_call", 0, "")
    /\ FirstClassUnchanged
    /\ IF chatId \notin DOMAIN variant.activeCalls
       THEN emitted' = <<>> /\ variant' = variant
       ELSE /\ variant' = [variant EXCEPT !.activeCalls[chatId].status = "active"]
            /\ emitted' = VariantEmitToUsers(variant,
                                             variant.activeCalls[chatId].participants,
                                             "call_accepted", chatId, SkipNobody)

\* socket.on('reject_call')  (lines 1364-1382)
VariantRejectCall(socketId, chatId) ==
    /\ variant.sockets[socketId].state = "open"
    /\ last' = Reply("reject_call", 0, "")
    /\ FirstClassUnchanged
    /\ IF chatId \notin DOMAIN variant.activeCalls
       THEN emitted' = <<>> /\ variant' = variant
       ELSE /\ emitted' = VariantEmitToUsers(variant,
                                             variant.activeCalls[chatId].participants,
                                             "call_rejected", chatId, SkipNobody)
            /\ variant' = [variant EXCEPT
                              !.activeCalls = DeleteCall(variant.activeCalls, chatId)]

\* socket.on('end_call') of the variant  (lines 1385-1403)
VariantEndCall(socketId, chatId) ==
    /\ variant.sockets[socketId].state = "open"
    /\ last' = Reply("end_call", 0, "")
    /\ FirstClassUnchanged
    /\ IF chatId \notin DOMAIN variant.activeCalls
       THEN emitted' = <<>> /\ variant' = variant
       ELSE /\ emitted' =
                  LET reached == VariantEmitToUsers(variant,
                                     variant.activeCalls[chatId].participants,
                                     "call_ended", chatId, SkipNobody)
                  IN  [i \in DOMAIN reached |->
                          CallEndedEvent(reached[i].to, chatId,
                              CallDuration(variant.activeCalls[chatId].startTime, now))]
            /\ variant' = [variant EXCEPT
                              !.activeCalls = DeleteCall(variant.activeCalls, chatId)]

\* socket.on('disconnect') of the variant  (lines 1406-1414): the socket
\* leaves io.sockets.sockets, and the user record under socket.userId, if
\* there is one, is deleted.
VariantDisconnect(socketId) ==
    /\ variant.sockets[socketId].state = "open"
    /\ LET userId == variant.sockets[socketId].userId
       IN  variant' = [variant EXCEPT
                          !.sockets[socketId].state = "closed",
                          !.users = IF userId # Missing /\ userId \in DOMAIN variant.users
                                    THEN [u \in DOMAIN variant.users \ {userId} |->
                                             variant.users[u]]
                                    ELSE variant.users]
    /\ emitted' = <<>>
    /\ last' = Reply("disconnect", 0, "")
    /\ FirstClassUnchanged

\* ----------------------------------------------------------------- inputs
VariantChatIdInputs == VariantChatIds \cup {VariantBogusChatId}
VariantParticipantInputs ==
    {<<"client_a", "client_b">>, <<"client_a">>, <<"client_b", "client_b">>}
\* A second email no user has at the start.
OtherNewEmail == "other@example.com"
RegisterEmailInputs == {NewEmail, OtherNewEmail, "anna@example.com", BadEmail, Missing}
PasswordLengthInputs == {0, MinPasswordLength - 1, MinPasswordLength}
Emails == {users[i].email : i \in DOMAIN users}
EmailInputs == Emails \cup {GhostEmail, Missing}
RequestIdInputs == Times \cup {BogusRequestId}
UserIdInputs == UserIds \cup {GhostId}
ChatIdInputs == DOMAIN chats \cup {BogusChatId, NoChatId}
CallTypeInputs == {"video", Missing}
TextInputs == {"hi", Missing}
CallIdInputs == Times \cup {BogusRequestId, NoCallId}
LiveCallIdInputs == DOMAIN activeCalls \cup {BogusRequestId, NoCallId}
\* The socket events whose handler destructures its payload.
PayloadEvents == {"send_message", "start_call", "accept_call", "end_call"}
\* The waits between events, in milliseconds.
WaitSteps == {500}
\* Number of messages stored that came through send_message.
RECURSIVE SentIn(_, _)
SentIn(chs, S) ==
    IF S = {} THEN 0
    ELSE LET c == CHOOSE x \in S : TRUE
         IN Len(SelectSeq(chs[c].messages, LAMBDA m : m.id.kind = "msg"))
                + SentIn(chs, S \ {c})
SentCount == SentIn(chats, DOMAIN chats)
MaxUnreadCount == LET counts == {chats[c].unreadCount : c \in DOMAIN chats}
                  IN CHOOSE n \in counts : \A k \in counts : k <= n
\* All sequences over S of length at most n.
RECURSIVE SeqsUpTo(_, _)
SeqsUpTo(S, n) ==
    IF n = 0 THEN {<<>>}
    ELSE LET shorter == SeqsUpTo(S, n - 1)
         IN shorter \cup {Append(s, x) : s \in shorter, x \in S}
ParticipantIdInputs == SeqsUpTo(UserIdInputs, MaxPartIds)

\* ------------------------------------------------------- specifications
\* The server: every handler modelled above, each with the bound that caps it.
Next ==
    \/ \E u \in UserIds, e \in EmailInputs :
            SendRequest(u, e) /\ RequestCount' <= MaxRequests
    \/ \E u \in UserIds, r \in RequestIdInputs : AcceptRequest(u, r)
    \/ \E u \in UserIds, r \in RequestIdInputs : RejectRequest(u, r)
    \/ \E u \in UserIds, f \in UserIdInputs : RemoveFriend(u, f)
    \/ \E u \in UserIds, p \in ParticipantIdInputs :
            CreateChat(u, TRUE, p) /\ Cardinality(DOMAIN chats') <= MaxChats
    \/ \E u \in UserIds : CreateChat(u, FALSE, <<>>)
    \/ \E s \in SocketIds, u \in UserIdInputs : Authenticate(s, TRUE, u)
    \/ \E s \in SocketIds : Authenticate(s, FALSE, Missing)
    \/ \E s \in SocketIds : Disconnect(s)
    \/ \E s \in SocketIds, c \in ChatIdInputs, t \in CallTypeInputs :
            StartCall(s, c, t) /\ Cardinality(DOMAIN activeCalls') <= MaxCalls
    \/ \E s \in SocketIds, c \in CallIdInputs :
            /\ AcceptCall(s, c)
            /\ \A d \in DOMAIN activeCalls' :
                  Len(activeCalls'[d].participants) <= MaxCallParts
    \/ \E s \in SocketIds, c \in ChatIdInputs, t \in TextInputs :
            SendMessage(s, c, t) /\ SentCount' <= MaxSent /\ MaxUnreadCount' <= MaxUnread
    \/ \E u \in UserIds, c \in ChatIdInputs : GetMessages(u, c)
    \/ \E s \in SocketIds, c \in CallIdInputs : EndCall(s, c)
    \/ \E s \in SocketIds, ev \in PayloadEvents : EventWithoutPayload(s, ev)
    \/ \E e \in EmailInputs, given \in BOOLEAN, valid \in BOOLEAN : Login(e, given, valid)
    \/ \E n \in BOOLEAN, e \in RegisterEmailInputs, p \in PasswordLengthInputs :
            RegisterCheck(n, e, p) /\ Len(registering') <= MaxInFlight
    \/ \E k \in 1..MaxInFlight :
            RegisterCreate(k) /\ Len(users') <= Cardinality(DemoUserIds) + MaxRegistered
    \/ Tick

\* Every behaviour of the server.  Its state space is the product of the
\* friend workflow, the chats, the sessions and the calls; the properties are
\* checked under the restrictions of Next below, each to the handlers that
\* write, or decide the writes to, the variables the property reads.
Spec == Init /\ [][Next]_vars

\* The friend-request workflow: the four friend routes and the clock.  No other
\* handler writes friendships or friendRequests, and the only chats these
\* routes read are the ones acceptRequest itself creates.
NextFriends ==
    \/ \E u \in UserIds, e \in EmailInputs :
            SendRequest(u, e) /\ RequestCount' <= MaxRequests
    \/ \E u \in UserIds, r \in RequestIdInputs : AcceptRequest(u, r)
    \/ \E u \in UserIds, r \in RequestIdInputs : RejectRequest(u, r)
    \/ \E u \in UserIds, f \in UserIdInputs : RemoveFriend(u, f)
    \/ Tick

SpecFriends == Init /\ [][NextFriends]_vars

\* The friend workflow together with POST /api/chats: the two ways a chat
\* comes to exist after construction.
NextChats ==
    \/ \E u \in UserIds, e \in EmailInputs :
            SendRequest(u, e) /\ RequestCount' <= MaxLiveRequests
    \/ \E u \in UserIds, r \in RequestIdInputs : AcceptRequest(u, r)
    \/ \E u \in UserIds, r \in RequestIdInputs : RejectRequest(u, r)
    \/ \E u \in UserIds, f \in UserIdInputs : RemoveFriend(u, f)
    \/ \E u \in UserIds, p \in ParticipantIdInputs :
            CreateChat(u, TRUE, p) /\ Cardinality(DOMAIN chats') <= MaxChats
    \/ \E u \in UserIds : CreateChat(u, FALSE, <<>>)
    \/ Tick

SpecChats == Init /\ [][NextChats]_vars

\* The friend workflow with live connections: the sessions decide what the
\* friend routes emit.
NextLive ==
    \/ \E u \in UserIds, e \in EmailInputs :
            SendRequest(u, e) /\ RequestCount' <= MaxLiveRequests
    \/ \E u \in UserIds, r \in RequestIdInputs : AcceptRequest(u, r)
    \/ \E u \in UserIds, r \in RequestIdInputs : RejectRequest(u, r)
    \/ \E u \in UserIds, f \in UserIdInputs : RemoveFriend(u, f)
    \/ \E s \in SocketIds, u \in UserIdInputs : Authenticate(s, TRUE, u)
    \/ \E s \in SocketIds : Authenticate(s, FALSE, Missing)
    \/ \E s \in SocketIds : Disconnect(s)
    \/ Tick

SpecLive == Init /\ [][NextLive]_vars

\* Friend routes, sessions and start_call, on well-formed inputs: states in
\* which friend requests, chats, messages, sessions and calls all exist.
NextFrame ==
    \/ \E u \in UserIds, e \in Emails :
            SendRequest(u, e) /\ RequestCount' <= MaxLiveRequests
    \/ \E u \in UserIds, r \in RequestIdInputs : AcceptRequest(u, r)
    \/ \E u \in UserIds, f \in UserIdInputs : RemoveFriend(u, f)
    \/ \E s \in SocketIds, u \in UserIds : Authenticate(s, TRUE, u)
    \/ \E s \in SocketIds, c \in DOMAIN chats :
            StartCall(s, c, "video") /\ Cardinality(DOMAIN activeCalls') <= MaxCalls
    \/ Tick

SpecFrame == Init /\ [][NextFrame]_vars

\* Messaging: sessions, POST /api/chats, send_message and the read route.
\* The clock stands still: no handler here compares timestamps.
NextMsgs ==
    \/ \E s \in PeerSockets, u \in UserIds : Authenticate(s, TRUE, u)
    \/ \E s \in PeerSockets : Disconnect(s)
    \/ \E p \in SeqsUpTo(UserIds, MaxPartIds) :
            CreateChat("demo_user_1", TRUE, p) /\ Cardinality(DOMAIN chats') <= MaxChats
    \/ \E s \in PeerSockets, c \in ChatIdInputs, t \in TextInputs :
            SendMessage(s, c, t) /\ SentCount' <= MaxSent /\ MaxUnreadCount' <= MaxUnread
    \/ \E u \in UserIds, c \in DOMAIN chats \cup {BogusChatId} : GetMessages(u, c)

SpecMsgs == Init /\ [][NextMsgs]_vars

\* A long conversation: demo_user_1 connects, creates a chat with no other
\* participant and keeps sending to it, far enough for the history cap to
\* apply.  The text is free for the first two messages and for the messages
\* sent at the cap, so that neighbours, and the messages on either side of a
\* cut, differ.
SoloChats == {c \in DOMAIN chats : chats[c].participants = <<"demo_user_1">>}
HistoryTexts(c) ==
    IF Len(chats[c].messages) <= 1 \/ Len(chats[c].messages) >= HistoryLimit - 1
    THEN {"hi", "yo"} ELSE {"hi"}

NextHistory ==
    \/ Authenticate(1, TRUE, "demo_user_1")
    \/ CreateChat("demo_user_1", TRUE, <<>>) /\ Cardinality(DOMAIN chats') <= MaxChats
    \/ \E c \in SoloChats : \E t \in HistoryTexts(c) : SendMessage(1, c, t)

SpecHistory == Init /\ [][NextHistory]_vars

\* Call signaling: sessions, POST /api/chats, start_call, accept_call and the
\* clock that names the calls.
NextCalls ==
    \/ \E s \in PeerSockets, u \in UserIds : Authenticate(s, TRUE, u)
    \/ /\ CreateChat("demo_user_1", TRUE, <<"demo_user_2">>)
       /\ Cardinality(DOMAIN chats') <= MaxChats
    \/ \E s \in PeerSockets, c \in ChatIdInputs :
            StartCall(s, c, "video") /\ Cardinality(DOMAIN activeCalls') <= MaxCalls
    \/ \E s \in PeerSockets, c \in CallIdInputs :
            /\ AcceptCall(s, c)
            /\ \A d \in DOMAIN activeCalls' :
                  Len(activeCalls'[d].participants) <= MaxCallParts
    \/ Tick

SpecCalls == Init /\ [][NextCalls]_vars

\* The life of a call: sessions, start_call, accept_call and end_call, with
\* half-second waits between events.
NextCallLife ==
    \/ \E s \in PeerSockets, u \in UserIds : Authenticate(s, TRUE, u)
    \/ \E s \in PeerSockets : Disconnect(s)
    \/ \E s \in PeerSockets, c \in DOMAIN chats :
            StartCall(s, c, "video") /\ Cardinality(DOMAIN activeCalls') <= MaxCalls
    \/ \E s \in PeerSockets, c \in LiveCallIdInputs :
            /\ AcceptCall(s, c)
            /\ \A d \in DOMAIN activeCalls' :
                  Len(activeCalls'[d].participants) <= MaxCallParts
    \/ \E s \in PeerSockets, c \in LiveCallIdInputs : EndCall(s, c)
    \/ \E ms \in WaitSteps : Wait(ms) /\ now' <= MaxWaits * ms

SpecCallLife == Init /\ [][NextCallLife]_vars

\* The guards of the socket handlers: every socket event with well-formed,
\* ill-formed and absent payloads, by any connected user, on the demo chat and
\* on a chat of two.  The clock stands still.
NextGuards ==
    \/ \E s \in PeerSockets, u \in UserIds : Authenticate(s, TRUE, u)
    \/ /\ CreateChat("demo_user_1", TRUE, <<"demo_user_2">>)
       /\ Cardinality(DOMAIN chats') <= MaxChats
    \/ \E s \in PeerSockets, c \in ChatIdInputs :
            StartCall(s, c, "video") /\ Cardinality(DOMAIN activeCalls') <= MaxCalls
    \/ \E s \in PeerSockets, c \in CallIdInputs :
            /\ AcceptCall(s, c)
            /\ \A d \in DOMAIN activeCalls' :
                  Len(activeCalls'[d].participants) <= MaxCallParts
    \/ \E s \in PeerSockets, c \in CallIdInputs : EndCall(s, c)
    \* the messages the handler refuses
    \/ \E s \in PeerSockets, c \in ChatIdInputs, t \in TextInputs :
            SendMessage(s, c, t) /\ chats' = chats
    \/ \E s \in PeerSockets, ev \in PayloadEvents : EventWithoutPayload(s, ev)

SpecGuards == Init /\ [][NextGuards]_vars

\* The variant with reject_call: connections, user_connected, create_chat
\* and the four call events.
NextVariant ==
    \/ \E s \in PeerSockets : VariantConnect(s)
    \/ \E s \in PeerSockets, u \in VariantUserIds : VariantUserConnected(s, u)
    \/ \E s \in PeerSockets, c \in VariantChatIds, p \in VariantParticipantInputs :
            VariantCreateChat(s, c, p)
    \/ \E s \in PeerSockets, c \in VariantChatIdInputs, u \in VariantUserIds :
            VariantStartCall(s, c, u)
    \/ \E s \in PeerSockets, c \in VariantChatIdInputs : VariantAcceptCall(s, c)
    \/ \E s \in PeerSockets, c \in VariantChatIdInputs : VariantRejectCall(s, c)
    \/ \E s \in PeerSockets, c \in VariantChatIdInputs : VariantEndCall(s, c)
    \/ \E s \in PeerSockets : VariantDisconnect(s)

SpecVariant == Init /\ [][NextVariant]_vars

\* Registration, with the requests that wait for their hash, and the two
\* routes that find a user by email.
NextRegister ==
    \/ \E n \in BOOLEAN, e \in RegisterEmailInputs, p \in PasswordLengthInputs :
            RegisterCheck(n, e, p) /\ Len(registering') <= MaxInFlight
    \/ \E k \in 1..MaxInFlight :
            RegisterCreate(k) /\ Len(users') <= Cardinality(DemoUserIds) + MaxRegistered
    \/ \E e \in RegisterEmailInputs : Login(e, TRUE, TRUE)
    \/ \E u \in UserIds, e \in RegisterEmailInputs :
            SendRequest(u, e) /\ RequestCount' <= MaxLiveRequests

SpecRegister == Init /\ [][NextRegister]_vars

\* Presence: the login route, authenticate and disconnect on several
\* connections, and the removal of a friendship between them.
NextPresence ==
    \/ \E s \in PeerSockets, u \in UserIdInputs : Authenticate(s, TRUE, u)
    \/ \E s \in PeerSockets : Authenticate(s, FALSE, Missing)
    \/ \E s \in PeerSockets : Disconnect(s)
    \/ \E e \in EmailInputs, given \in BOOLEAN, valid \in BOOLEAN : Login(e, given, valid)
    \/ \E u \in UserIds, f \in UserIds : RemoveFriend(u, f)

SpecPresence == Init /\ [][NextPresence]_vars

\* ================================================================ claims
\* All request records, as <<recipient key, index>> positions.
RequestPositions ==
    UNION {{<<u, i>> : i \in DOMAIN friendRequests[u]} : u \in DOMAIN friendRequests}
RequestAt(pos) == friendRequests[pos[1]][pos[2]]
\* edge(a, b) of the friend graph, read off the state.
EdgeIn(fs, a, b) == a \in DOMAIN fs /\ b \in fs[a]
Edge(a, b) == EdgeIn(friendships, a, b)
\* Some socket is mapped to the user.
Connected(u) == \E k \in DOMAIN socketUsers : socketUsers[k].uid = u
AllIds == DemoUserIds \cup {GhostId}

\* C1: in every reachable state the friendship relation is symmetric: b is in
\* friendships[a] if and only if a is in friendships[b].
C1_FriendshipSymmetric ==
    \A a \in AllIds, b \in AllIds : Edge(a, b) <=> Edge(b, a)

\* C1 witness: requests have been sent, one accepted and one rejected, a new
\* friendship exists and a demo friendship has been removed.
C1_Witness ==
    /\ \E p \in RequestPositions : RequestAt(p).status = "accepted"
    /\ \E p \in RequestPositions : RequestAt(p).status = "rejected"
    /\ Edge("demo_user_2", "demo_user_3")
    /\ ~Edge("demo_user_1", "demo_user_2")

\* C2 (as claimed): for every accepted request r, both edge(r.from, r.to) and
\* edge(r.to, r.from) are present, also after a later removeFriend.
C2_AcceptedImpliesEdges ==
    \A p \in RequestPositions :
        RequestAt(p).status = "accepted" =>
            /\ Edge(RequestAt(p).fromUserId, RequestAt(p).toUserId)
            /\ Edge(RequestAt(p).toUserId, RequestAt(p).fromUserId)

\* C2 (amended): the step that accepts a request r leaves both edges between
\* r.from and r.to present, and from then on only a removeFriend between the
\* two users takes them away.
C2_EdgesUntilRemoveFriend ==
    [][\A u \in DOMAIN friendRequests : \A i \in DOMAIN friendRequests[u] :
          LET r == friendRequests[u][i]
              a == r.fromUserId
              b == r.toUserId
              both == Edge(a, b) /\ Edge(b, a)
          IN  /\ (r.status = "pending" /\ friendRequests'[u][i].status = "accepted")
                    => both'
              /\ (r.status = "accepted" /\ both /\ ~both')
                    => (RemoveFriend(a, b) \/ RemoveFriend(b, a))
      ]_vars

\* C2 witness: a request has just been accepted and both edges are present.
C2_Witness ==
    /\ last.op = "acceptRequest" /\ last.status = 200
    /\ \E p \in RequestPositions :
          /\ RequestAt(p).status = "accepted"
          /\ RequestAt(p).respondedAt = now
          /\ Edge(RequestAt(p).fromUserId, RequestAt(p).toUserId)
          /\ Edge(RequestAt(p).toUserId, RequestAt(p).fromUserId)

\* C3: in every reachable state at most one request with status pending exists
\* for each ordered pair (fromUserId, toUserId).
C3_OnePendingPerPair ==
    \A p \in RequestPositions, q \in RequestPositions :
        ( /\ RequestAt(p).status = "pending" /\ RequestAt(q).status = "pending"
          /\ RequestAt(p).fromUserId = RequestAt(q).fromUserId
          /\ RequestAt(p).toUserId = RequestAt(q).toUserId ) => p = q

\* C3 witness: a second request for a pair that has a pending one was refused.
C3_Witness ==
    /\ last.op = "sendRequest" /\ last.error = "DuplicatePending"
    /\ \E p \in RequestPositions : RequestAt(p).status = "pending"

\* C4: once a request is accepted or rejected, no later step changes its
\* status or respondedAt (nor anything else of the record).
C4_AnsweredIsTerminal ==
    [][\A u \in DOMAIN friendRequests : \A i \in DOMAIN friendRequests[u] :
          friendRequests[u][i].status # "pending" =>
              /\ u \in DOMAIN friendRequests'
              /\ i \in DOMAIN friendRequests'[u]
              /\ friendRequests'[u][i] = friendRequests[u][i]
      ]_vars

\* C4 witness: an accept or reject was refused while every stored request,
\* one accepted and one rejected, is already answered.
C4_Witness ==
    /\ last.op \in {"acceptRequest", "rejectRequest"} /\ last.status = 404
    /\ \E p \in RequestPositions : RequestAt(p).status = "accepted"
    /\ \E p \in RequestPositions : RequestAt(p).status = "rejected"
    /\ \A p \in RequestPositions : RequestAt(p).status # "pending"

\* C5: sendRequest(from, to) answers AlreadyFriends when edge(from, to)
\* exists, and DuplicatePending when (they are not friends and) a pending
\* request from `from` to `to` exists; either way no request is created, no
\* state changes and nothing is emitted.
C5_SendRequestRefusals ==
    [][\A u \in DemoUserIds : \A i \in DOMAIN users :
          LET to == users[i].id
              pend == \E p \in RequestPositions :
                          /\ RequestAt(p).fromUserId = u
                          /\ RequestAt(p).toUserId = to
                          /\ RequestAt(p).status = "pending"
          IN  ( /\ last'.op = "sendRequest"
                /\ Edge(u, to) \/ pend
                /\ SendRequest(u, users[i].email) ) =>
                  /\ last'.status = 400
                  /\ Edge(u, to) => last'.error = "AlreadyFriends"
                  /\ ~Edge(u, to) => last'.error = "DuplicatePending"
                  /\ emitted' = <<>>
                  /\ UNCHANGED <<users, friendships, friendRequests, chats,
                                 activeCalls, socketUsers>>
      ]_vars

\* C5 witness: B accepted A's request, B is connected, and a further
\* sendRequest was answered AlreadyFriends.
C5_Witness ==
    /\ last.op = "sendRequest" /\ last.error = "AlreadyFriends"
    /\ \E p \in RequestPositions :
          /\ RequestAt(p).status = "accepted"
          /\ Edge(RequestAt(p).fromUserId, RequestAt(p).toUserId)
          /\ Connected(RequestAt(p).toUserId)

\* C6: the step in which acting user B accepts a pending request from A
\* leaves the request accepted (respondedAt = now), edge(A,B) and edge(B,A)
\* present, and a chat of type private with participant set {A,B} existing.
C6_AcceptPostcondition ==
    [][\A u \in DOMAIN friendRequests : \A i \in DOMAIN friendRequests[u] :
          LET r == friendRequests[u][i]
              a == r.fromUserId
              b == r.toUserId
          IN  (r.status = "pending" /\ friendRequests'[u][i].status = "accepted") =>
                  /\ b = u
                  /\ friendRequests'[u][i].respondedAt = now
                  /\ last' = [op |-> "acceptRequest", status |-> 200, error |-> ""]
                  /\ EdgeIn(friendships', a, b) /\ EdgeIn(friendships', b, a)
                  /\ \E c \in DOMAIN chats' :
                        /\ chats'[c].type = "private"
                        /\ Range(chats'[c].participants) = {a, b}
      ]_vars

\* C6 witness: a request was just accepted, the two users are friends, and
\* their private chat is older than the accept (it was reused).
C6_Witness ==
    /\ last.op = "acceptRequest" /\ last.status = 200
    /\ \E p \in RequestPositions : \E c \in DOMAIN chats :
          /\ RequestAt(p).status = "accepted" /\ RequestAt(p).respondedAt = now
          /\ Edge(RequestAt(p).fromUserId, RequestAt(p).toUserId)
          /\ chats[c].type = "private"
          /\ Range(chats[c].participants) =
                {RequestAt(p).fromUserId, RequestAt(p).toUserId}
          /\ chats[c].createdAt < now

\* C7 (as claimed): the chat newly created when B accepts A's request holds
\* exactly one message, and its senderId is A, the sender of the request.
C7_SeedAuthoredByRequester ==
    [][\A u \in DOMAIN friendRequests : \A i \in DOMAIN friendRequests[u] :
          (friendRequests[u][i].status = "pending"
              /\ friendRequests'[u][i].status = "accepted") =>
             \A c \in DOMAIN chats' \ DOMAIN chats :
                 /\ Len(chats'[c].messages) = 1
                 /\ chats'[c].messages[1].senderId = friendRequests[u][i].fromUserId
      ]_vars

\* C8 (as claimed): no reachable state holds two chats whose participant set
\* is the same pair of users.
C8_OneChatPerPair ==
    \A c \in DOMAIN chats, d \in DOMAIN chats :
        ( /\ Cardinality(Range(chats[c].participants)) = 2
          /\ Range(chats[c].participants) = Range(chats[d].participants) ) => c = d

EmittedEv(ev) == \E k \in DOMAIN emitted : emitted[k].ev = ev
ParticipantSet(c) == Range(chats[c].participants)

\* C11: createChat(creator, participantIds), all ids naming users, fails with
\* ChatAlreadyExists, the chat store unchanged and no chat_created emitted,
\* exactly when some existing chat has the participant set {creator} \cup
\* participantIds; otherwise it creates exactly one new chat with that
\* participant set (the chats that existed are all still there, unchanged).
C11_CreateChatDedup ==
    [][\A u \in DemoUserIds : \A p \in SeqsUpTo(DemoUserIds, MaxPartIds) :
          LET want == {u} \cup Range(p)
              exists == \E c \in DOMAIN chats : ParticipantSet(c) = want
          IN  (last'.op = "createChat" /\ CreateChat(u, TRUE, p)) =>
                  IF exists
                  THEN /\ last'.error = "ChatAlreadyExists"
                       /\ chats' = chats
                       /\ ~EmittedEv("chat_created")'
                  ELSE /\ last'.status = 201
                       /\ \E c \in DOMAIN chats' \ DOMAIN chats :
                             /\ DOMAIN chats' = DOMAIN chats \cup {c}
                             /\ Range(chats'[c].participants) = want
                       /\ \A d \in DOMAIN chats : chats'[d] = chats[d]
      ]_vars

\* C12: in every reachable state every chat has a non-empty participant list
\* with no repeated user id.
C12_ParticipantsUnique ==
    \A c \in DOMAIN chats :
        /\ Len(chats[c].participants) >= 1
        /\ Cardinality(Range(chats[c].participants)) = Len(chats[c].participants)

\* C12 witness: besides the demo chat, a chat made by POST /api/chats and a
\* chat made by accepting a friend request both exist.
C12_Witness ==
    /\ \E c \in DOMAIN chats : c.kind = "chat" /\ c.t # NoTime
    /\ \E c \in DOMAIN chats : c.kind = "chat" /\ c.a # ""
    /\ \E c \in DOMAIN chats : c.kind = "demo_chat"

\* C13: a chat's message list is append-only in send order: after every
\* successful sendMessage the new list is a suffix of (old list followed by
\* the new message) with the new message last, and no other chat's list changes.
C13_AppendOnly ==
    [][\A s \in PeerSockets : \A c \in DOMAIN chats : \A t \in {"hi", "yo"} :
          LET old == chats[c].messages
              new == chats'[c].messages
              all == Append(old, new[Len(new)])
          IN  ( /\ last'.op = "send_message"
                /\ SocketUser(s) \in Range(chats[c].participants)
                /\ SendMessage(s, c, t) ) =>
                  /\ Len(new) >= 1 /\ Len(new) <= Len(old) + 1
                  /\ new[Len(new)].text = t
                  /\ new[Len(new)].senderId = SocketUser(s)
                  /\ new[Len(new)].chatId = c
                  /\ new = SubSeq(all, Len(all) - Len(new) + 1, Len(all))
                  /\ \A d \in DOMAIN chats \ {c} : chats'[d].messages = chats[d].messages
      ]_vars

\* C13 witness: three messages were sent to a chat one after the other, "yo"
\* and then two "hi", and the chat lists them in that order.
C13_Witness ==
    /\ last.op = "send_message"
    /\ \E c \in DOMAIN chats :
          /\ Len(chats[c].messages) = 3
          /\ chats[c].messages[1].text = "yo"
          /\ chats[c].messages[2].text = "hi"
          /\ chats[c].messages[3].text = "hi"
          /\ \A i \in 1..3 : chats[c].messages[i].id.kind = "msg"

\* C14: a chat's message list never holds more than 1000 entries after an
\* operation; an append that pushes the length above 1000 leaves exactly the
\* 100 most recently appended messages, in order, the new message last (and
\* an append that does not push it above 1000 cuts nothing).
C14_HistoryCap ==
    [][ /\ \A c \in DOMAIN chats' : Len(chats'[c].messages) <= 1000
        /\ \A s \in PeerSockets : \A c \in DOMAIN chats : \A t \in {"hi", "yo"} :
              LET old == chats[c].messages
                  new == chats'[c].messages
              IN  ( /\ last'.op = "send_message"
                    /\ Len(old) + 1 > 1000
                    /\ SocketUser(s) \in Range(chats[c].participants)
                    /\ SendMessage(s, c, t) ) =>
                      /\ Len(new) = 100
                      /\ \A i \in 1..99 : new[i] = old[Len(old) - 99 + i]
                      /\ new[100].text = t /\ new[100] = chats'[c].lastMessage
        /\ \A s \in PeerSockets : \A c \in DOMAIN chats : \A t \in {"hi", "yo"} :
              ( /\ last'.op = "send_message"
                /\ Len(chats[c].messages) + 1 <= 1000
                /\ SocketUser(s) \in Range(chats[c].participants)
                /\ SendMessage(s, c, t) ) =>
                  Len(chats'[c].messages) = Len(chats[c].messages) + 1
      ]_vars

\* C14 witness: the list was just cut to 100 messages; the message that
\* caused the cut ("yo") is last and the one sent before it ("hi") is before it.
C14_Witness ==
    /\ last.op = "send_message"
    /\ \E c \in DOMAIN chats :
          /\ Len(chats[c].messages) = 100
          /\ chats[c].messages[100].text = "yo"
          /\ chats[c].messages[99].text = "hi"
          /\ chats[c].messages[98].text = "hi"

\* The users, other than the sender, that take part in chat c and have no socket.
OfflineOthersOf(c, sender) ==
    {p \in Range(chats[c].participants) \ {sender} : ~Connected(p)}

\* C15: a successful sendMessage to chat c increases c.unreadCount by exactly
\* the number of participants other than the sender that have no live
\* connection; a read of c's history by a participant sets it to 0; and
\* unreadCount is never negative.
C15_UnreadCount ==
    [][ /\ \A s \in PeerSockets : \A c \in DOMAIN chats :
              ( /\ last'.op = "send_message"
                /\ SocketUser(s) \in Range(chats[c].participants)
                /\ SendMessage(s, c, "hi") ) =>
                  chats'[c].unreadCount =
                      chats[c].unreadCount + Cardinality(OfflineOthersOf(c, SocketUser(s)))
        /\ \A u \in DemoUserIds : \A c \in DOMAIN chats :
              ( /\ last'.op = "getMessages"
                /\ u \in Range(chats[c].participants)
                /\ GetMessages(u, c) ) =>
                  chats'[c].unreadCount = 0
        /\ \A c \in DOMAIN chats' : chats'[c].unreadCount >= 0
      ]_vars

\* C15 witness: a message was just sent to a chat of three while one of the
\* other two was connected and one was not, and the chat's unreadCount is 1.
C15_Witness ==
    /\ last.op = "send_message"
    /\ \E c \in DOMAIN chats :
          /\ Len(chats[c].participants) = 3
          /\ chats[c].unreadCount = 1
          /\ chats[c].lastMessage.id.kind = "msg"
          /\ Cardinality(OfflineOthersOf(c, chats[c].lastMessage.senderId)) = 1
          /\ Len(emitted) = 2

\* C16: sendMessage with an unknown chatId, or by a sender who is not a
\* participant of the chat, is a silent no-op: no chat changes (messages,
\* unreadCount, updatedAt, lastMessage) and no event is emitted to anyone.
C16_SendMessageNoOp ==
    [][last'.op = "send_message" =>
       \A s \in PeerSockets : \A c \in ChatIdInputs : \A t \in TextInputs :
          ( /\ \/ c \notin DOMAIN chats
               \/ SocketUser(s) \notin Range(chats[c].participants)
            /\ SendMessage(s, c, t) ) =>
              /\ emitted' = <<>>
              /\ UNCHANGED <<users, friendships, friendRequests, chats, activeCalls,
                             socketUsers>>
      ]_vars

\* C16 witness: a send_message left no trace while no message has ever been
\* sent, a connected user is outside a chat and a participant of that chat is
\* connected (a delivery would have reached them).
C16_Witness ==
    /\ last.op = "send_message" /\ emitted = <<>>
    /\ SentCount = 0
    /\ \E c \in DOMAIN chats : \E i, j \in DOMAIN socketUsers :
          /\ socketUsers[i].uid \notin Range(chats[c].participants)
          /\ socketUsers[j].uid \in Range(chats[c].participants)

\* C17: on a successful sendMessage to chat c, every participant of c other
\* than the sender that has a live connection receives exactly one new_message
\* event carrying that chatId and message, and no connection of a user who is
\* not a participant of c receives anything.
C17_Delivery ==
    [][last'.op = "send_message" =>
       \A s \in PeerSockets : \A c \in DOMAIN chats :
          ( /\ SocketUser(s) \in Range(chats[c].participants)
            /\ SendMessage(s, c, "hi") ) =>
              /\ \A p \in Range(chats[c].participants) \ {SocketUser(s)} :
                    Connected(p) =>
                        Cardinality({k \in DOMAIN emitted' :
                            /\ emitted'[k].ev = "new_message"
                            /\ SocketUser(emitted'[k].to) = p
                            /\ emitted'[k].chatId = c
                            /\ emitted'[k].message = chats'[c].lastMessage
                            /\ emitted'[k].message.text = "hi"}) = 1
              /\ \A k \in DOMAIN emitted' :
                    SocketUser(emitted'[k].to) \in Range(chats[c].participants)
      ]_vars

\* C17 witness: a message was just delivered to a connected participant other
\* than its sender, in a chat that a third user is not connected to.
C17_Witness ==
    /\ last.op = "send_message"
    /\ \E k \in DOMAIN emitted :
          /\ emitted[k].ev = "new_message"
          /\ SocketUser(emitted[k].to) # emitted[k].message.senderId
          /\ Connected(emitted[k].message.senderId)
          /\ emitted[k].chatId \in DOMAIN chats
          /\ emitted[k].message = chats[emitted[k].chatId].lastMessage

\* C18: a successful startCall(callerId, chatId, type) by a participant of the
\* chat creates exactly one new call record, with status = calling and
\* participants = [callerId], and leaves every call record that existed unchanged.
C18_StartCallCreates ==
    [][last'.op = "start_call" =>
       \A s \in PeerSockets : \A c \in DOMAIN chats :
          ( /\ SocketUser(s) \in Range(chats[c].participants)
            /\ StartCall(s, c, "video") ) =>
              /\ \E id \in DOMAIN activeCalls' \ DOMAIN activeCalls :
                    /\ DOMAIN activeCalls' = DOMAIN activeCalls \cup {id}
                    /\ activeCalls'[id].status = "calling"
                    /\ activeCalls'[id].participants = <<SocketUser(s)>>
                    /\ activeCalls'[id].chatId = c
              /\ \A d \in DOMAIN activeCalls : activeCalls'[d] = activeCalls[d]
      ]_vars

\* The users an event of the step just taken went to, by event name.
ReachedBy(ev) ==
    {SocketUser(emitted[k].to) : k \in {j \in DOMAIN emitted : emitted[j].ev = ev}}

\* C19: on a successful startCall in chat X, incoming_call is emitted, once
\* each, to every participant of X other than the caller that has a live
\* connection and to nobody else, and call_started is emitted to the caller's
\* connection only.
C19_StartCallFanOut ==
    [][last'.op = "start_call" =>
       \A s \in PeerSockets : \A c \in DOMAIN chats :
          ( /\ SocketUser(s) \in Range(chats[c].participants)
            /\ StartCall(s, c, "video") ) =>
              /\ ReachedBy("incoming_call")' =
                    {p \in Range(chats[c].participants) \ {SocketUser(s)} : Connected(p)}
              /\ \A p \in Range(chats[c].participants) :
                    Cardinality({k \in DOMAIN emitted' :
                                    /\ emitted'[k].ev = "incoming_call"
                                    /\ SocketUser(emitted'[k].to) = p}) <= 1
              /\ Cardinality({k \in DOMAIN emitted' : emitted'[k].ev = "call_started"}) = 1
              /\ \A k \in DOMAIN emitted' :
                    emitted'[k].ev = "call_started" => emitted'[k].to = s
              /\ \A k \in DOMAIN emitted' :
                    emitted'[k].ev \in {"incoming_call", "call_started"}
      ]_vars

\* C19 witness: a call was just started in a chat of two by one participant
\* while the other was connected: one incoming_call and one call_started were
\* emitted, to different sockets.
C19_Witness ==
    /\ last.op = "start_call"
    /\ Len(emitted) = 2
    /\ emitted[1].ev = "incoming_call" /\ emitted[2].ev = "call_started"
    /\ emitted[1].to # emitted[2].to
    /\ \E d \in DOMAIN activeCalls :
          /\ Len(chats[activeCalls[d].chatId].participants) = 2
          /\ activeCalls[d].callerId = SocketUser(emitted[2].to)

\* C20 as stated: acceptCall(calleeId, callId) on an existing call started by
\* caller yields a record with status = active and participants =
\* [caller, callee]; with an unknown callId it changes nothing and emits nothing.
C20_AcceptCallPair ==
    [][last'.op = "accept_call" =>
       \A s \in PeerSockets : \A id \in CallIdInputs :
          (SocketUser(s) # Missing /\ AcceptCall(s, id)) =>
              IF id \in DOMAIN activeCalls
              THEN /\ activeCalls'[id].status = "active"
                   /\ activeCalls'[id].participants =
                          <<activeCalls[id].callerId, SocketUser(s)>>
              ELSE /\ emitted' = <<>>
                   /\ UNCHANGED <<users, friendships, friendRequests, chats,
                                  activeCalls, socketUsers>>
      ]_vars

\* C20, amended: acceptCall(calleeId, callId) on an existing call sets status
\* = active and appends calleeId to the participants, which gives
\* [caller, callee] when the call was still calling; with an unknown callId
\* it changes nothing and emits nothing.
C20_AcceptCallAppends ==
    [][last'.op = "accept_call" =>
       \A s \in PeerSockets : \A id \in CallIdInputs :
          (SocketUser(s) # Missing /\ AcceptCall(s, id)) =>
              IF id \in DOMAIN activeCalls
              THEN /\ activeCalls'[id].status = "active"
                   /\ activeCalls'[id].participants =
                          Append(activeCalls[id].participants, SocketUser(s))
                   /\ activeCalls[id].status = "calling" =>
                          activeCalls'[id].participants =
                              <<activeCalls[id].callerId, SocketUser(s)>>
                   /\ \A d \in DOMAIN activeCalls \ {id} : activeCalls'[d] = activeCalls[d]
                   /\ DOMAIN activeCalls' = DOMAIN activeCalls
              ELSE /\ emitted' = <<>>
                   /\ UNCHANGED <<users, friendships, friendRequests, chats,
                                  activeCalls, socketUsers>>
      ]_vars

\* C20 witness: a call was accepted twice, by two users other than the caller:
\* it is active and lists the caller and then the two of them.
C20_Witness ==
    /\ last.op = "accept_call" /\ emitted # <<>>
    /\ \E d \in DOMAIN activeCalls :
          /\ activeCalls[d].status = "active"
          /\ Len(activeCalls[d].participants) = 3
          /\ activeCalls[d].participants[1] = activeCalls[d].callerId
          /\ Cardinality(Range(activeCalls[d].participants)) = 3

\* C21: endCall(callId) on an existing call, calling or active, emits
\* call_ended{callId, duration}, duration = floor((now - startTime)/1000) >= 0,
\* to every recorded participant that has a live connection (and to nobody
\* else) and removes the record, every other record staying as it was; an
\* accept_call or end_call for a callId that resolves to no record, as after
\* the removal, changes nothing and emits nothing.
C21_EndCall ==
    [][ /\ last'.op = "end_call" =>
             \A s \in PeerSockets : \A id \in LiveCallIdInputs :
                EndCall(s, id) =>
                    IF id \in DOMAIN activeCalls
                    THEN LET rec == activeCalls[id]
                             d == (now - rec.startTime) \div 1000
                         IN  /\ \A q \in Range(rec.participants) :
                                   Connected(q) =>
                                       \E k \in DOMAIN emitted' :
                                           SocketUser(emitted'[k].to) = q
                             /\ \A k \in DOMAIN emitted' :
                                   /\ emitted'[k].ev = "call_ended"
                                   /\ emitted'[k].id = id
                                   /\ emitted'[k].duration = d
                                   /\ emitted'[k].duration >= 0
                                   /\ SocketUser(emitted'[k].to) \in Range(rec.participants)
                             /\ DOMAIN activeCalls' = DOMAIN activeCalls \ {id}
                             /\ \A c \in DOMAIN activeCalls' : activeCalls'[c] = activeCalls[c]
                             /\ UNCHANGED <<users, friendships, friendRequests, chats,
                                            socketUsers>>
                    ELSE /\ emitted' = <<>>
                         /\ UNCHANGED <<users, friendships, friendRequests, chats,
                                        activeCalls, socketUsers>>
        /\ last'.op = "accept_call" =>
             \A s \in PeerSockets : \A id \in LiveCallIdInputs :
                (id \notin DOMAIN activeCalls /\ AcceptCall(s, id)) =>
                    /\ emitted' = <<>>
                    /\ UNCHANGED <<users, friendships, friendRequests, chats,
                                   activeCalls, socketUsers>>
      ]_vars

\* C21 witness: a call that lasted a full second was just ended: call_ended
\* with duration 1 went to two sockets and no call record is left.
C21_Witness ==
    /\ last.op = "end_call"
    /\ Len(emitted) = 2
    /\ emitted[1].to # emitted[2].to
    /\ \A k \in DOMAIN emitted : emitted[k].ev = "call_ended" /\ emitted[k].duration = 1
    /\ DOMAIN activeCalls = {}

\* The ids a call can get in the call-lifecycle specification.
LifeCallIds == {k * ms : k \in 0..MaxWaits, ms \in WaitSteps}

\* C22: every call follows calling -> active -> ended or calling -> ended: a
\* record is created with status calling, an active record never goes back
\* to calling, and once a record has been removed no record of that call
\* (no record under its id) is calling or active again.
C22_CallLifecycle ==
    /\ [][\A id \in LifeCallIds :
            /\ (id \notin DOMAIN activeCalls /\ id \in DOMAIN activeCalls') =>
                   activeCalls'[id].status = "calling"
            /\ ( /\ id \in DOMAIN activeCalls /\ id \in DOMAIN activeCalls'
                 /\ activeCalls[id].status = "active" ) =>
                   activeCalls'[id].status = "active"
         ]_vars
    /\ \A id \in LifeCallIds :
          [](id \in DOMAIN activeCalls =>
                [](id \notin DOMAIN activeCalls => [](id \notin DOMAIN activeCalls)))

\* C23: a call that receives no accept_call and no end_call stays in status
\* calling with unchanged participants: no other event (send_message,
\* authenticate, disconnect, a start_call for another call) removes or alters
\* its record.
C23_UnansweredCallStays ==
    [][\A id \in DOMAIN activeCalls :
          (activeCalls[id].status = "calling" /\ last'.op \notin {"accept_call", "end_call"}) =>
              /\ id \in DOMAIN activeCalls'
              /\ activeCalls'[id] = activeCalls[id]
      ]_vars

\* C24: in every reachable state the participants of every call record are a
\* subset of the participants of the chat the call belongs to.
C24_CallParticipantsInChat ==
    \A id \in DOMAIN activeCalls :
        Range(activeCalls[id].participants)
            \subseteq Range(chats[activeCalls[id].chatId].participants)

\* The step changed no user, friend, chat, call or session state and emitted nothing.
SilentNoOp ==
    /\ emitted' = <<>>
    /\ UNCHANGED <<users, friendships, friendRequests, chats, activeCalls, socketUsers>>

\* The user of socket s takes part neither in the call nor in its chat.
OutsideCall(s, id) ==
    /\ SocketUser(s) \notin Range(activeCalls[id].participants)
    /\ SocketUser(s) \notin Range(chats[activeCalls[id].chatId].participants)

\* C25: authorization failures are silent no-ops: a send_message or
\* start_call by a user who is not a participant of the chat, and an
\* accept_call or end_call by a user who is a participant neither of the call
\* nor of the chat it belongs to, change no state and emit nothing.
C25_UnauthorizedIsNoOp ==
    [][\A s \in PeerSockets :
          SocketUser(s) # Missing =>
              /\ last'.op = "send_message" =>
                    \A c \in DOMAIN chats :
                        ( /\ SocketUser(s) \notin Range(chats[c].participants)
                          /\ SendMessage(s, c, "hi") ) => SilentNoOp
              /\ last'.op = "start_call" =>
                    \A c \in DOMAIN chats :
                        ( /\ SocketUser(s) \notin Range(chats[c].participants)
                          /\ StartCall(s, c, "video") ) => SilentNoOp
              /\ last'.op = "accept_call" =>
                    \A id \in DOMAIN activeCalls :
                        (OutsideCall(s, id) /\ AcceptCall(s, id)) => SilentNoOp
              /\ last'.op = "end_call" =>
                    \A id \in DOMAIN activeCalls :
                        (OutsideCall(s, id) /\ EndCall(s, id)) => SilentNoOp
      ]_vars

\* C26: a malformed socket event (chatId, text or callId missing or empty,
\* the payload itself missing, or an id that refers to no chat or call) is at
\* worst a no-op: no map changes, nothing is emitted and no error leaves the
\* handler.
C26_MalformedIsNoOp ==
    [][\A s \in PeerSockets :
          /\ \A c \in ChatIdInputs : \A t \in TextInputs :
                ( /\ last'.op = "send_message"
                  /\ c \notin DOMAIN chats \/ t = Missing
                  /\ SendMessage(s, c, t) ) => (SilentNoOp /\ last'.error = "")
          /\ \A c \in ChatIdInputs \ DOMAIN chats :
                (last'.op = "start_call" /\ StartCall(s, c, "video")) =>
                    (SilentNoOp /\ last'.error = "")
          /\ \A id \in CallIdInputs \ DOMAIN activeCalls :
                (last'.op = "accept_call" /\ AcceptCall(s, id)) =>
                    (SilentNoOp /\ last'.error = "")
          /\ \A id \in CallIdInputs \ DOMAIN activeCalls :
                (last'.op = "end_call" /\ EndCall(s, id)) =>
                    (SilentNoOp /\ last'.error = "")
          /\ \A ev \in PayloadEvents :
                (last'.op = ev /\ EventWithoutPayload(s, ev)) =>
                    (SilentNoOp /\ last'.error = "")
      ]_vars

\* The stored status of user u.
StatusOf(u) == users[CHOOSE i \in DOMAIN users : users[i].id = u].status

\* The friend_status_changed events of the step just taken.
StatusEvents == {i \in DOMAIN emitted : emitted[i].ev = "friend_status_changed"}

\* The registry maps a connection to user u.
HasSession(u) == \E s \in PeerSockets : SocketUser(s) = u

\* The friends of user u that have a session.
LiveFriends(u) ==
    {f \in UserIds : u \in DOMAIN friendships /\ f \in friendships[u] /\ HasSession(f)}

\* The step's friend_status_changed events tell status st of user u, one to
\* each friend of u that has a session and none to anyone else.
StatusFanOut(u, st) ==
    /\ \A i \in StatusEvents :
          /\ emitted[i].user = u
          /\ emitted[i].status = st
          /\ SocketUser(emitted[i].to) \in LiveFriends(u)
    /\ \A f \in LiveFriends(u) : \E i \in StatusEvents : SocketUser(emitted[i].to) = f
    /\ Cardinality(StatusEvents) = Cardinality(LiveFriends(u))

\* C27: when a connection authenticates as user U, U.status becomes online,
\* and when the connection owning U disconnects, U.status becomes offline; in
\* both cases friend_status_changed with the new status goes to exactly the
\* friends of U that have a live session and to no one who is not a friend.
C27_PresenceFanOut ==
    [][\A s \in PeerSockets :
          /\ last'.op = "authenticate" =>
                \A u \in UserIds :
                    Authenticate(s, TRUE, u) =>
                        (StatusOf(u) = "online" /\ StatusFanOut(u, "online"))'
          /\ last'.op = "disconnect" =>
                \A u \in UserIds :
                    (SocketUser(s) = u /\ Disconnect(s)) =>
                        (StatusOf(u) = "offline" /\ StatusFanOut(u, "offline"))'
      ]_vars

\* a connection of demo_user_2 has just closed while demo_user_1, a friend, is
\* connected and was told so
C27_Witness ==
    /\ last.op = "disconnect"
    /\ StatusOf("demo_user_2") = "offline"
    /\ HasSession("demo_user_1")
    /\ \E i \in StatusEvents :
          emitted[i].user = "demo_user_2" /\ emitted[i].status = "offline"

\* The users that createDemoData stores as online.
DemoOnline == {"demo_user_1", "demo_user_3"}

\* C28: between events, after any sequence of authenticate, re-authenticate,
\* login and disconnect, no user has stored status online while the session
\* registry resolves no connection for that user. (Stated for the users that
\* do not start online.)
C28_OnlineHasConnection ==
    \A u \in UserIds \ DemoOnline : StatusOf(u) = "online" => getSocketByUserId(u) # 0

\* C29: for every user u, isOnline(u) is true if and only if the session
\* registry holds a connection mapped to u, and exactly then
\* getSocketByUserId(u) returns a connection, one that is mapped to u.
C29_OnlineIffSession ==
    \A u \in UserIdInputs :
        /\ isUserOnline(u) <=> HasSession(u)
        /\ HasSession(u) <=> getSocketByUserId(u) # 0
        /\ getSocketByUserId(u) # 0 => SocketUser(getSocketByUserId(u)) = u

\* two connections are mapped to two users and the third user has none
C29_Witness ==
    /\ Len(socketUsers) = 2
    /\ socketUsers[1].uid # socketUsers[2].uid
    /\ isUserOnline(socketUsers[2].uid)
    /\ \E u \in UserIds : ~isUserOnline(u)

\* C30: in every reachable state each connection of the session registry is
\* mapped to at most one user and no two connections are mapped to the same
\* user.
C30_OneConnectionPerUser ==
    \A i, j \in DOMAIN socketUsers :
        i # j => (socketUsers[i].sid # socketUsers[j].sid
                  /\ socketUsers[i].uid # socketUsers[j].uid)

\* Event e reaches socket s: it was sent to s or to every connected socket.
Receives(s, e) == e.to = s \/ e.to = AllSockets

\* C32: on a successful acceptCall, call_accepted with the updated call
\* record is broadcast to every connected session, not only to the call's
\* participants: each session receives it once; with caller A and callee B
\* both connected and the call not yet answered, both receive participants =
\* [A, B].
C32_AcceptBroadcast ==
    [][last'.op = "accept_call" =>
       \A s \in PeerSockets : \A id \in DOMAIN activeCalls :
          (SocketUser(s) # Missing /\ AcceptCall(s, id)) =>
              \A r \in PeerSockets :
                  SocketUser(r) # Missing =>
                      /\ Cardinality({k \in DOMAIN emitted' :
                                         /\ emitted'[k].ev = "call_accepted"
                                         /\ Receives(r, emitted'[k])}) = 1
                      /\ \A k \in DOMAIN emitted' :
                            Receives(r, emitted'[k]) =>
                                /\ emitted'[k].ev = "call_accepted"
                                /\ emitted'[k].id = id
                                /\ emitted'[k].user = SocketUser(s)
                                /\ emitted'[k].callData = activeCalls'[id]
                                /\ activeCalls[id].status = "calling" =>
                                      emitted'[k].callData.participants =
                                          <<activeCalls[id].callerId, SocketUser(s)>>
      ]_vars

\* the callee's accept of an unanswered call, caller and callee connected:
\* the broadcast carries participants = [caller, callee]
C32_Witness ==
    /\ last.op = "accept_call"
    /\ \E k \in DOMAIN emitted :
          /\ emitted[k].ev = "call_accepted" /\ emitted[k].to = AllSockets
          /\ Len(emitted[k].callData.participants) = 2
          /\ emitted[k].callData.participants[1] = emitted[k].callData.callerId
          /\ emitted[k].callData.participants[2] = emitted[k].user
          /\ emitted[k].user # emitted[k].callData.callerId
          /\ isUserOnline(emitted[k].user)
          /\ isUserOnline(emitted[k].callData.callerId)

\* C33: U is marked offline, and U's friends are told that U went offline,
\* only when U has no live connection left: when one of two connections of U
\* disconnects, U is not marked or announced offline while the other is still
\* registered.
C33_OfflineOnlyWithoutSession ==
    [][last'.op = "disconnect" =>
       \A s \in PeerSockets : \A u \in UserIds :
          (SocketUser(s) = u /\ Disconnect(s) /\ HasSession(u)') =>
              /\ StatusOf(u)' # "offline"
              /\ \A k \in DOMAIN emitted' :
                    ~ ( /\ emitted'[k].ev = "friend_status_changed"
                        /\ emitted'[k].user = u
                        /\ emitted'[k].status = "offline" )
      ]_vars

\* C34: in every reachable state no pending friend request exists between two
\* users who are friends: after the accept of a request from A to B no
\* request between A and B, in either direction, is pending.
C34_NoPendingBetweenFriends ==
    \A p \in RequestPositions :
        RequestAt(p).status = "pending" =>
            ~ Edge(RequestAt(p).fromUserId, RequestAt(p).toUserId)

\* C35: in every reachable state the participants list of every call record
\* holds each user at most once, also when the caller accepts their own call
\* or a user sends accept_call for the same callId more than once.
C35_CallParticipantsOnce ==
    \A id \in DOMAIN activeCalls :
        \A i, j \in DOMAIN activeCalls[id].participants :
            activeCalls[id].participants[i] = activeCalls[id].participants[j] => i = j

\* C36: a send_message, start_call, accept_call or end_call that arrives on a
\* connection with no user attached changes no state and emits nothing.
C36_UnauthenticatedIsNoOp ==
    [][\A s \in PeerSockets :
          SocketUser(s) = Missing =>
              /\ last'.op = "send_message" =>
                    \A c \in ChatIdInputs : \A t \in TextInputs :
                        SendMessage(s, c, t) => SilentNoOp
              /\ last'.op = "start_call" =>
                    \A c \in ChatIdInputs : StartCall(s, c, "video") => SilentNoOp
              /\ last'.op = "accept_call" =>
                    \A id \in CallIdInputs : AcceptCall(s, id) => SilentNoOp
              /\ last'.op = "end_call" =>
                    \A id \in CallIdInputs : EndCall(s, id) => SilentNoOp
      ]_vars

\* C37: startCall never replaces or discards an existing call record: every
\* record that exists before a start_call exists unchanged after it, also
\* when two start_call events are handled at the same clock reading.
C37_StartCallKeepsCalls ==
    [][last'.op = "start_call" =>
          \A d \in DOMAIN activeCalls :
              d \in DOMAIN activeCalls' /\ activeCalls'[d] = activeCalls[d]
      ]_vars

\* C38: no two user records ever share an email address, also when two
\* registration requests for the same email are in flight at the same time.
C38_EmailsUnique ==
    \A i, j \in DOMAIN users : users[i].email = users[j].email => i = j

\* The session registry of the variant holds a live connection for user u:
\* the socket of u's user record is connected.
VariantHasSession(u) ==
    /\ u \in DOMAIN variant.users
    /\ variant.sockets[variant.users[u].socketId].state = "open"

\* The step changed nothing of the variant and emitted nothing.
VariantNoOp == variant' = variant /\ emitted' = <<>>

====
